---- MODULE Spec2Model ----
(***************************************************************************)
(* Glass CLI: the bridge client (GlassAPI, GlassBackgroundScript, the      *)
(* retrievesets command) and the page-context API bridge, as state         *)
(* machines over the window's message queue, timers and network events.    *)
(*                                                                         *)
(*   Spec          the isolated-context clients; the bridge is the         *)
(*                 environment (it may answer a request it received)       *)
(*   ProtocolSpec  Spec without the retrievesets command                   *)
(*   FairSpec      ProtocolSpec with the fairness the event loop gives     *)
(*                 timers and promise continuations                        *)
(*   BridgeSpec    api-bridge.js: its listener, its handlers and their     *)
(*                 network operations; the callers are the environment     *)
(***************************************************************************)
EXTENDS Integers, Sequences, FiniteSets, TLC

\* ------------------------------------------------------------------ bounds
\* Number of client calls (command invocations) in one page lifetime.
MaxCalls == 2
\* Messages posted on the window by parties other than client and bridge.
MaxForeign == 1
\* Messages posted to the bridge in one page lifetime.
MaxRequests == 1
\* Times the bridge script is run in the page.
MaxInjections == 2
\* Calls of register.
MaxRegistrations == 2
\* Calls of one cache's fetch function.
MaxFetchCalls == 3
\* Rows of the largest instance.
MaxItems == 11
\* Rows picked from a pool for the small instances.
MaxPicked == 3
\* Characters of a raw response.
MaxHtml == 4
\* Lines a script prints between the markers.
MaxLines == 2
\* Commands entered in the input field.
MaxEntered == 2
\* Records a query of group memberships or roles returns.
MaxRecords == 1

\* ------------------------------------------------------- program constants
\* api.js: this.timeout
DefaultTimeout == 15000
\* api.js _sendMessage: delay before window.postMessage
PostDelay == 50
\* background-script.js: DEFAULT_TIMEOUT
BgDefaultTimeout == 30000
\* api-bridge.js handleApiRequest, handleGenericApiRequest: xhr.timeout
XhrTimeout == 15000
\* A timeout argument of _sendMessage shorter than the posting delay.
ShortTimeout == 10
\* list.js findMatchingTables, retrievesets findMatchingSources: slice(0, 10)
MaxResults == 10
\* list.js: CACHE_DURATION (12 hours)
TablesCacheDuration == 43200000
\* retrievesets: CACHE_DURATION (10 minutes)
SourcesCacheDuration == 600000
\* api-bridge.js getCurrentUserInfo: xhr.timeout
SessionXhrTimeout == 5000

Calls == 1..MaxCalls
Reqs == 1..MaxRequests

\* ------------------------------------------------------------ message types
ApiRequestTypes ==
  {"snEzApiRequest", "snEzImpersonateRequest", "snEzEndImpersonateRequest",
   "snEzCurrentUserRequest", "glassApiRequest"}

RequestTypes ==
  ApiRequestTypes \cup {"glassBackgroundScriptRequest", "glassRetrieveUpdateSetsRequest"}

ResponseType(t) ==
  CASE t = "snEzApiRequest" -> "snEzApiResponse"
    [] t = "snEzImpersonateRequest" -> "snEzImpersonateResponse"
    [] t = "snEzEndImpersonateRequest" -> "snEzEndImpersonateResponse"
    [] t = "snEzCurrentUserRequest" -> "snEzCurrentUserResponse"
    [] t = "glassApiRequest" -> "glassApiResponse"
    [] t = "glassBackgroundScriptRequest" -> "glassBackgroundScriptResponse"
    [] t = "glassRetrieveUpdateSetsRequest" -> "glassRetrieveUpdateSetsResponse"

ResponseTypes == {ResponseType(t) : t \in RequestTypes}

\* The request type the modelled API wrappers send (tableGet, request).
ApiCallTypes == {"glassApiRequest"}

NoType == "undefined"
NoId == <<"undefined", 0, 0>>
NoData == 0

\* type.includes('Response'): the type names of the model that contain the text.
IncludesResponse(t) == t \in ResponseTypes

Message(t, id, d, p) == [type |-> t, messageId |-> id, data |-> d, payload |-> p]
BridgeReadyMessage == Message("glassBridgeReady", NoId, NoData, "none")

\* ------------------------------------------------------------------- state
VARIABLES
  now,                \* Date.now()
  queue,              \* message events posted on the window, not yet dispatched
  messageIdCounter,   \* ServiceNowAPI.messageIdCounter
  messageHandlers,    \* ServiceNowAPI.messageHandlers: set of <<messageId, call>>
  bridgeReady,        \* ServiceNowAPI.bridgeReady
  bridgeReadyPromise, \* "null", "pending", "resolved", "rejected"
  readyHandlerOn,     \* readyHandler is registered on the window
  script,             \* the injected script element: "none", "loading", "loaded", "failed"
  fallbackArmed,      \* the 100 ms timer of script.onload is pending
  injectCount,        \* document.head.appendChild(script) calls
  bgCounter,          \* background-script.js messageIdCounter
  pendingRequests,    \* background-script.js pendingRequests: set of <<messageId, call>>
  calls,              \* per call: the caller's promise, its listener and its timers
  sourcesCached,      \* retrievesets: cachedSources is non-empty and within CACHE_DURATION
  fetchCall,          \* retrievesets: the call carrying the in-flight fetchPromise, or 0
  snEzApiBridge,      \* window.snEzApiBridge: the bridge has installed its listener
  bridgeInbox,        \* request messages the bridge listener has received
  foreignLeft,        \* foreign messages still to be posted
  listeners,          \* message listeners api-bridge.js has added to the window
  injections,         \* runs of api-bridge.js in the page
  ops,                \* per message posted to the bridge: what the bridge did with it
  commands,           \* CommandRegistry.commands: set of <<lower-case name, descriptor>>
  aliases,            \* CommandRegistry.aliases: set of <<lower-case alias, lower-case name>>
  registrations,      \* calls of register so far
  registered,         \* descriptors whose register call returned
  lastRegister,       \* the last register call: did the descriptor lack a field, did it throw
  dispatch,           \* the last executeCommand call
  cache,              \* one cache closure (list.js tables, retrievesets sources)
  fetches,            \* per call of the cache's fetch function: what it saw and got
  lastRead,           \* the last call of the cache's synchronous read
  rows,               \* the rows the instance serves for the cache (what a load caches)
  lookup,             \* the last lookup in the cache: input, array read, result
  parseCall,          \* the last executeAndExtract / executeAndParse: inputs, result
  terminal,           \* the input field and the command histories of the radial UI and GlassUI
  run                 \* the last dispatch from the input field: calls, requests, messages

readyVars ==
  <<bridgeReady, bridgeReadyPromise, readyHandlerOn, script, fallbackArmed, injectCount>>
tableVars == <<messageIdCounter, messageHandlers, bgCounter, pendingRequests>>
cacheVars == <<sourcesCached, fetchCall>>
bridgeVars == <<listeners, injections, ops>>
pageVars == <<snEzApiBridge, bridgeInbox, foreignLeft, bridgeVars>>

clientVars == <<now, queue, calls, readyVars, tableVars, cacheVars, pageVars>>

registryVars == <<commands, aliases, registrations, registered, lastRegister, dispatch>>

fetchVars == <<cache, fetches, lastRead>>
lookupVars == <<rows, lookup>>
parseVars == <<parseCall>>
sessionVars == <<terminal, run>>
helperVars == <<lookupVars, parseVars, sessionVars>>
commandVars == <<registryVars, fetchVars, helperVars>>

vars == <<clientVars, commandVars>>

\* ------------------------------------------------------------ Map helpers
Has(table, id) == \E e \in table : e[1] = id
Get(table, id) == (CHOOSE e \in table : e[1] = id)[2]
Delete(table, id) == {e \in table : e[1] # id}
Set(table, id, c) == Delete(table, id) \cup {<<id, c>>}

NoResult == [kind |-> "none", msg |-> BridgeReadyMessage]

IdleCall ==
  [pc |-> "idle", path |-> "none", type |-> NoType, id |-> NoId,
   timeout |-> 0, timeoutArmed |-> FALSE, postArmed |-> FALSE, listening |-> FALSE,
   waitOn |-> 0, settleCalls |-> 0, removed |-> 0, result |-> NoResult,
   \* history: was the bridge ready when the request was posted; has a response
   \* event for the call's id been dispatched after the call settled
   postedReady |-> "no", late |-> FALSE]

NoMessage == Message(NoType, NoId, NoData, "none")

\* What the bridge has done with one message: the handler's closure (msg), the
\* network operation in flight (stage, timeout), counts of what it caused, the type
\* and messageId of the last response, and whether the bridge script had run more
\* than once when the message was dispatched (rerun); what the handler found in the
\* page (found), the user an impersonate POST names (target) and the content of the
\* last response (respText).
IdleOp ==
  [msg |-> NoMessage, stage |-> "unsent", timeout |-> 0, rerun |-> FALSE,
   asyncOps |-> 0, probes |-> 0, responses |-> 0, respType |-> NoType, respId |-> NoId,
   uncaught |-> 0, found |-> "", target |-> "", respText |-> ""]

InitBridge ==
  /\ listeners = 0
  /\ injections = 0
  /\ ops = [r \in Reqs |-> IdleOp]

\* get returns null for an unknown token; Map.get returns undefined for a missing key.
NullCommand == [id |-> 0, name |-> "null", aliases |-> <<>>, execute |-> FALSE, validate |-> FALSE]
UndefinedCommand ==
  [id |-> 0, name |-> "undefined", aliases |-> <<>>, execute |-> FALSE, validate |-> FALSE]

\* One executeCommand call: where it stands, the token and the descriptor it resolved,
\* the calls it made, what validate did (validated), what went wrong (failure), the
\* messages handed to ui.showError, and its promise.
NotValidated ==
  [kind |-> "none", value |-> [type |-> "undefined", value |-> "undefined"]]
IdleDispatch ==
  [pc |-> "idle", commandName |-> "", command |-> NullCommand, validateCalls |-> 0,
   validated |-> NotValidated, executeCalls |-> 0, failure |-> "none", shown |-> <<>>,
   promise |-> "none"]

\* new CommandRegistry(): two empty maps.
InitRegistry ==
  /\ commands = {}
  /\ aliases = {}
  /\ registrations = 0
  /\ registered = {}
  /\ lastRegister = [called |-> FALSE, lacking |-> FALSE, threw |-> FALSE]
  /\ dispatch = IdleDispatch

\* The closure of one cache module as the script leaves it: cachedTables = []
\* (cached: cachedTables.length > 0), cacheTimestamp = 0, isFetching = false,
\* fetchPromise = null (0); what localStorage holds for the cache key (storage); how
\* far each promise the fetch function created has run (stage); Date.now() (clock).
FetchCalls == 1..MaxFetchCalls
NoEntry == [present |-> FALSE, timestamp |-> 0]
Entry(t) == [present |-> TRUE, timestamp |-> t]
IdleCache(name, storage, t) ==
  [name |-> name, cached |-> FALSE, cacheTimestamp |-> 0, storage |-> storage,
   isFetching |-> FALSE, fetchPromise |-> 0, stage |-> [p \in FetchCalls |-> "unused"],
   clock |-> t]
\* One call of the fetch function: the fetches running when it was made (active), the
\* promise it returned (got; 0: the cached array), whether it started a fetch, and
\* the time, the memory entry and the stored entry it found.
NoFetch ==
  [made |-> FALSE, active |-> {}, got |-> 0, started |-> FALSE, at |-> 0,
   mem |-> NoEntry, sto |-> NoEntry]
\* One call of the synchronous read: the time, the memory entry and the stored entry
\* it found, whether it loaded the stored entry, the fetch call it made (0: none), the entry it returned.
NoRead ==
  [made |-> FALSE, at |-> 0, mem |-> NoEntry, sto |-> NoEntry, loaded |-> FALSE,
   call |-> 0, returned |-> NoEntry]
\* No lookup made yet.
NoLookup == [op |-> "none", input |-> <<>>, over |-> <<>>, result |-> <<>>]
InitFetch ==
  /\ cache = IdleCache("tables", NoEntry, 0)
  /\ fetches = [i \in FetchCalls |-> NoFetch]
  /\ lastRead = NoRead
  /\ rows = <<>>
  /\ lookup = NoLookup

\* No script call made yet.
NoParse == [op |-> "none"]

\* floating-icon.js: commandHistory = [], historyIndex = -1, inputField.value = '';
\* new GlassUI(): commandHistory = [], historyIndex = -1.
IdleTerminal ==
  [commandHistory |-> <<>>, historyIndex |-> -1, value |-> <<>>,
   uiHistory |-> <<>>, uiIndex |-> -1]
\* Nothing dispatched yet. pc: where the dispatch stands, step: the request the command
\* awaits; typed: the input field at Enter, line: the line dispatched; commandName: the command token, name: the name of the descriptor it resolved;
\* calls: the validate and execute calls with their arguments; requests: the requests
\* handed to the API client, answers: what came back; shown: the feedback messages;
\* hidden: ui.hide() without a later ui.show(); reloads: context.reload() calls; left:
\* the records the running loop has still to delete.
IdleRun ==
  [pc |-> "idle", step |-> "none", typed |-> <<>>, line |-> <<>>, commandName |-> "",
   name |-> "",
   args |-> <<>>, calls |-> <<>>, requests |-> <<>>, answers |-> <<>>, shown |-> <<>>,
   hidden |-> FALSE, reloads |-> 0, left |-> 0]
InitSession ==
  /\ terminal = IdleTerminal
  /\ run = IdleRun

InitPage ==
  /\ now = 0
  /\ queue = <<>>
  /\ messageIdCounter = 0
  /\ messageHandlers = {}
  /\ bridgeReady = FALSE
  /\ bridgeReadyPromise = "null"
  /\ readyHandlerOn = FALSE
  /\ script = "none"
  /\ fallbackArmed = FALSE
  /\ injectCount = 0
  /\ bgCounter = 0
  /\ pendingRequests = {}
  /\ calls = [c \in Calls |-> IdleCall]
  /\ sourcesCached \in BOOLEAN
  /\ fetchCall = 0
  /\ snEzApiBridge = FALSE
  /\ bridgeInbox = {}
  /\ foreignLeft = MaxForeign
  /\ InitBridge
  /\ parseCall = NoParse
  /\ InitSession

InitClient == InitPage /\ InitRegistry

\* ----------------------------------------------------------- event loop
\* The awaited readiness promise has settled for this caller.
ReadyOutcome(c) ==
  IF calls[c].pc = "ready" THEN "resolved" ELSE bridgeReadyPromise

\* A promise continuation (microtask) of call c is runnable.
Runnable(c) ==
  \/ calls[c].pc \in {"awaitReady", "ready"} /\ ReadyOutcome(c) \in {"resolved", "rejected"}
  \/ calls[c].pc \in {"resolved", "rejected"} /\ fetchCall = c
  \/ calls[c].pc = "awaitFetch" /\ (calls[c].waitOn = 0 \/ fetchCall # calls[c].waitOn)

\* Microtasks run in the order they were queued.
MicrotaskOrder(c) ==
  IF calls[c].pc = "awaitFetch" THEN MaxCalls + c ELSE c

\* The continuation of call c is the next microtask.
MicrotaskMayRun(c) ==
  /\ Runnable(c)
  /\ \A d \in Calls : Runnable(d) => MicrotaskOrder(c) <= MicrotaskOrder(d)

\* A task (timer, event, network callback, command) starts only when no microtask is left.
TaskMayRun == \A c \in Calls : ~Runnable(c)

\* Date.now(): the values a read can return, given the last value read (the clock
\* is read only to build ids, so it is advanced where it is read).
DateNow == {now, now + 1}

\* ------------------------------------------------- api.js ensureBridgeReady
\* Faulty variant: the check of this.bridgeReadyPromise is left out.
CreatesReadyPromiseWhenNotReady == ~bridgeReady

\* The promise executor of ensureBridgeReady runs (and injects the script)?
CreatesReadyPromise == ~bridgeReady /\ bridgeReadyPromise = "null"

EnsureBridgeReady ==
  IF CreatesReadyPromise
  THEN IF snEzApiBridge
       THEN /\ bridgeReady' = TRUE
            /\ bridgeReadyPromise' = "resolved"
            /\ UNCHANGED <<readyHandlerOn, script, fallbackArmed, injectCount>>
       ELSE /\ readyHandlerOn' = TRUE
            /\ script' = "loading"
            /\ injectCount' = injectCount + 1
            /\ bridgeReadyPromise' = "pending"
            /\ UNCHANGED <<bridgeReady, fallbackArmed>>
  ELSE UNCHANGED readyVars

\* Faulty variant: the guard on window.snEzApiBridge is left out.
InstallsAlways == TRUE

\* api-bridge.js, the guard of the IIFE: the script goes on to install itself.
Installs == ~snEzApiBridge

\* api-bridge.js, the IIFE: set the flag, add the listener, post the ready signal.
BridgeScript ==
  IF Installs
  THEN /\ snEzApiBridge' = TRUE
       /\ listeners' = listeners + 1
       /\ queue' = Append(queue, BridgeReadyMessage)
  ELSE UNCHANGED <<snEzApiBridge, listeners, queue>>

\* The injected script element loads: the bridge script runs in the page, then
\* script.onload arms the 100 ms fallback.
ScriptLoad ==
  /\ script = "loading"
  /\ TaskMayRun
  /\ script' = "loaded"
  /\ BridgeScript
  /\ fallbackArmed' = TRUE
  /\ UNCHANGED <<now, calls, bridgeReady, bridgeReadyPromise, readyHandlerOn, injectCount,
                 tableVars, cacheVars, bridgeInbox, foreignLeft, injections, ops>>

\* script.onerror
ScriptError ==
  /\ script = "loading"
  /\ TaskMayRun
  /\ script' = "failed"
  /\ readyHandlerOn' = FALSE
  /\ bridgeReadyPromise' = IF bridgeReadyPromise = "pending" THEN "rejected"
                           ELSE bridgeReadyPromise
  /\ UNCHANGED <<now, queue, calls, bridgeReady, fallbackArmed, injectCount,
                 tableVars, cacheVars, pageVars>>

\* The 100 ms timer set by script.onload fires.
FallbackFire ==
  /\ fallbackArmed
  /\ TaskMayRun
  /\ fallbackArmed' = FALSE
  /\ IF ~bridgeReady
     THEN /\ readyHandlerOn' = FALSE
          /\ bridgeReady' = TRUE
          /\ bridgeReadyPromise' = IF bridgeReadyPromise = "pending" THEN "resolved"
                                   ELSE bridgeReadyPromise
     ELSE UNCHANGED <<readyHandlerOn, bridgeReady, bridgeReadyPromise>>
  /\ UNCHANGED <<now, queue, calls, script, injectCount, tableVars, cacheVars, pageVars>>

\* ------------------------------------------------------- correlation ids
\* api.js _generateMessageId: `glass_${Date.now()}_${++this.messageIdCounter}`
GenerateMessageId(t, n) == <<"glass", t, n>>
\* background-script.js generateMessageId: `glass_bg_${Date.now()}_${++messageIdCounter}`
GenerateBgMessageId(t, n) == <<"glass_bg", t, n>>
\* retrievesets callRetrieveUpdateSets: `glass_retrieve_${Date.now()}`
GenerateRetrieveMessageId(t) == <<"glass_retrieve", t, 0>>

\* ------------------------------------------------------ settling a promise
\* resolve or reject is invoked on the call's promise: only the first one settles it.
Settle(rec, how, kind, m) ==
  [rec EXCEPT !.settleCalls = @ + 1,
              !.pc = IF rec.result.kind = "none" THEN how ELSE @,
              !.result = IF rec.result.kind = "none" THEN [kind |-> kind, msg |-> m] ELSE @]

PostedNow == IF bridgeReady THEN "ready" ELSE "notReady"

\* ------------------------------------------------------ starting a request
\* Calls are numbered in the order they are made.
NextCall(c) == calls[c].pc = "idle" /\ \A d \in Calls : d < c => calls[d].pc # "idle"

\* GlassAPI._sendMessage(type, data, timeout), up to `await this.ensureBridgeReady()`.
SendMessageStart(c, t, ms) ==
  /\ NextCall(c)
  /\ TaskMayRun
  /\ calls' = [calls EXCEPT ![c] = [@ EXCEPT !.pc = "awaitReady", !.path = "api",
                                             !.type = t, !.timeout = ms]]
  /\ EnsureBridgeReady
  /\ UNCHANGED <<now, queue, tableVars, cacheVars, pageVars>>

\* window.GlassAPI && window.GlassAPI.ensureBridgeReady (api.js sets window.GlassAPI).
GlassAPIPresent == TRUE

\* GlassBackgroundScript.execute(script, options), up to `await ensureBridgeReady()`.
ExecuteStart(c) ==
  /\ NextCall(c)
  /\ TaskMayRun
  /\ calls' = [calls EXCEPT ![c] = [@ EXCEPT !.pc = IF GlassAPIPresent THEN "awaitReady"
                                                     ELSE "ready",
                                             !.path = "bg",
                                             !.type = "glassBackgroundScriptRequest",
                                             !.timeout = BgDefaultTimeout]]
  /\ IF GlassAPIPresent THEN EnsureBridgeReady ELSE UNCHANGED readyVars
  /\ UNCHANGED <<now, queue, tableVars, cacheVars, pageVars>>

\* _sendMessage after the await: the id, the timeout timer, the table entry, the post timer.
SendMessageContinue(c) ==
  /\ calls[c].path = "api"
  /\ calls[c].pc = "awaitReady"
  /\ MicrotaskMayRun(c)
  /\ IF ReadyOutcome(c) = "rejected"
     THEN /\ calls' = [calls EXCEPT ![c] = Settle(@, "rejected", "loadError", BridgeReadyMessage)]
          /\ UNCHANGED <<tableVars, now>>
     ELSE \E t \in DateNow : LET id == GenerateMessageId(t, messageIdCounter + 1) IN
          /\ now' = t
          /\ messageIdCounter' = messageIdCounter + 1
          /\ messageHandlers' = Set(messageHandlers, id, c)
          /\ calls' = [calls EXCEPT ![c] = [@ EXCEPT !.pc = "pending", !.id = id,
                                                     !.timeoutArmed = TRUE,
                                                     !.postArmed = TRUE]]
          /\ UNCHANGED <<bgCounter, pendingRequests>>
  /\ UNCHANGED <<queue, readyVars, cacheVars, pageVars>>

\* execute after the await: the id, the timeout timer, the table entry, the post.
ExecuteContinue(c) ==
  /\ calls[c].path = "bg"
  /\ calls[c].pc \in {"awaitReady", "ready"}
  /\ MicrotaskMayRun(c)
  /\ IF ReadyOutcome(c) = "rejected"
     THEN /\ calls' = [calls EXCEPT ![c] = Settle(@, "rejected", "loadError", BridgeReadyMessage)]
          /\ UNCHANGED <<tableVars, queue, now>>
     ELSE \E t \in DateNow : LET id == GenerateBgMessageId(t, bgCounter + 1) IN
          /\ now' = t
          /\ bgCounter' = bgCounter + 1
          /\ pendingRequests' = Set(pendingRequests, id, c)
          /\ calls' = [calls EXCEPT ![c] = [@ EXCEPT !.pc = "pending", !.id = id,
                                                     !.timeoutArmed = TRUE,
                                                     !.postedReady = PostedNow]]
          /\ queue' = Append(queue, Message(calls[c].type, id, c, "req"))
          /\ UNCHANGED <<messageIdCounter, messageHandlers>>
  /\ UNCHANGED <<readyVars, cacheVars, pageVars>>

\* The 50 ms timer of _sendMessage fires: window.postMessage({type, messageId, ...data}).
\* It was set after the timeout timer, so it fires first only when timeout > 50.
PostFire(c) ==
  /\ calls[c].postArmed
  /\ TaskMayRun
  /\ calls[c].timeout > PostDelay \/ ~calls[c].timeoutArmed
  /\ queue' = Append(queue, Message(calls[c].type, calls[c].id, c, "req"))
  /\ calls' = [calls EXCEPT ![c] = [@ EXCEPT !.postArmed = FALSE, !.postedReady = PostedNow]]
  /\ UNCHANGED <<now, readyVars, tableVars, cacheVars, pageVars>>

\* The entry a Map.delete(id) removes is counted on the call that registered it.
Removed(cs, table, id) ==
  IF Has(table, id)
  THEN [cs EXCEPT ![Get(table, id)] = [@ EXCEPT !.removed = @ + 1]]
  ELSE cs

\* The timeout timer of _sendMessage fires: delete the entry, reject.
TimeoutFire(c) ==
  /\ calls[c].path = "api"
  /\ calls[c].timeoutArmed
  /\ TaskMayRun
  /\ calls[c].timeout <= PostDelay \/ ~calls[c].postArmed
  /\ messageHandlers' = Delete(messageHandlers, calls[c].id)
  /\ calls' = [Removed(calls, messageHandlers, calls[c].id) EXCEPT
                 ![c] = Settle([@ EXCEPT !.timeoutArmed = FALSE], "rejected", "timeout",
                               BridgeReadyMessage)]
  /\ UNCHANGED <<now, queue, readyVars, messageIdCounter, bgCounter, pendingRequests,
                 cacheVars, pageVars>>

\* The timeout timer of execute fires: delete the entry, reject.
BgTimeoutFire(c) ==
  /\ calls[c].path = "bg"
  /\ calls[c].timeoutArmed
  /\ TaskMayRun
  /\ pendingRequests' = Delete(pendingRequests, calls[c].id)
  /\ calls' = [Removed(calls, pendingRequests, calls[c].id) EXCEPT
                 ![c] = Settle([@ EXCEPT !.timeoutArmed = FALSE], "rejected", "timeout",
                               BridgeReadyMessage)]
  /\ UNCHANGED <<now, queue, readyVars, messageIdCounter, bgCounter, messageHandlers,
                 cacheVars, pageVars>>

\* --------------------------------------------------- retrievesets command
\* fetchUpdateSources() starts the network fetch: api.tableGet on a call of its own.
FetchStart(f) ==
  /\ calls[f].pc = "idle"
  /\ fetchCall' = f
  /\ EnsureBridgeReady

\* retrievesets execute(args, ctx), up to `await fetchUpdateSources()`.
RetrieveStart(c) ==
  /\ NextCall(c)
  /\ TaskMayRun
  /\ IF sourcesCached
     THEN \* cached (memory or localStorage): no fetch
          /\ calls' = [calls EXCEPT ![c] = [@ EXCEPT !.pc = "awaitFetch", !.path = "retrieve",
                                                     !.type = "glassRetrieveUpdateSetsRequest"]]
          /\ UNCHANGED <<readyVars, cacheVars>>
     ELSE IF fetchCall # 0
     THEN \* isFetching && fetchPromise: wait for that promise
          /\ calls' = [calls EXCEPT ![c] = [@ EXCEPT !.pc = "awaitFetch", !.path = "retrieve",
                                                     !.type = "glassRetrieveUpdateSetsRequest",
                                                     !.waitOn = fetchCall]]
          /\ UNCHANGED <<readyVars, cacheVars>>
     ELSE \E f \in {c + 1} \cap Calls :
          /\ FetchStart(f)
          /\ calls' = [calls EXCEPT
                         ![c] = [@ EXCEPT !.pc = "awaitFetch", !.path = "retrieve",
                                          !.type = "glassRetrieveUpdateSetsRequest",
                                          !.waitOn = f],
                         ![f] = [@ EXCEPT !.pc = "awaitReady", !.path = "api",
                                          !.type = "glassApiRequest",
                                          !.timeout = DefaultTimeout]]
          /\ UNCHANGED sourcesCached
  /\ UNCHANGED <<now, queue, tableVars, pageVars>>

\* The async body of fetchUpdateSources after `await api.tableGet(...)`, with its finally.
FetchFinish(f) ==
  /\ fetchCall = f
  /\ calls[f].pc \in {"resolved", "rejected"}
  /\ MicrotaskMayRun(f)
  /\ fetchCall' = 0
  /\ sourcesCached' = (sourcesCached \/ (calls[f].pc = "resolved"
                                          /\ calls[f].result.msg.payload = "ok"))
  /\ UNCHANGED <<now, queue, calls, readyVars, tableVars, pageVars>>

\* execute after `await fetchUpdateSources()`: resolveSource, then callRetrieveUpdateSets:
\* the id, the listener, the post, the 30 s timer.
RetrieveContinue(c) ==
  /\ calls[c].path = "retrieve"
  /\ calls[c].pc = "awaitFetch"
  /\ MicrotaskMayRun(c)
  /\ IF sourcesCached
     THEN \E t \in DateNow : LET id == GenerateRetrieveMessageId(t) IN
          /\ now' = t
          /\ calls' = [calls EXCEPT ![c] = [@ EXCEPT !.pc = "pending", !.id = id,
                                                     !.listening = TRUE,
                                                     !.timeoutArmed = TRUE,
                                                     !.postedReady = PostedNow]]
          /\ queue' = Append(queue, Message(calls[c].type, id, c, "req"))
     ELSE /\ calls' = [calls EXCEPT ![c] = [@ EXCEPT !.pc = "noSource"]]
          /\ UNCHANGED <<queue, now>>
  /\ UNCHANGED <<readyVars, tableVars, cacheVars, pageVars>>

\* The 30 s timer of callRetrieveUpdateSets fires: remove the listener, resolve({error}).
RetrieveTimeoutFire(c) ==
  /\ calls[c].path = "retrieve"
  /\ calls[c].timeoutArmed
  /\ TaskMayRun
  /\ calls' = [calls EXCEPT ![c] = Settle([@ EXCEPT !.timeoutArmed = FALSE, !.listening = FALSE],
                                          "resolved", "timeout", BridgeReadyMessage)]
  /\ UNCHANGED <<now, queue, readyVars, tableVars, cacheVars, pageVars>>

\* --------------------------------------------------------- message listeners
\* Faulty variant: the test of the type for 'Response' is left out.
HandleMessageAcceptsAnyType(m) ==
  /\ m.messageId # NoId
  /\ Has(messageHandlers, m.messageId)
  /\ m.type # NoType

\* Faulty variant: the handler is not looked up by the event's messageId.
HandleMessageAnyHandler(m) == (CHOOSE e \in messageHandlers : TRUE)[2]

\* Faulty variant: the entry is left in the table when the response is handled.
HandleMessageKeep(table, id) == table

\* api.js _handleMessage: the event is one the listener settles a call on.
HandleMessageAccepts(m) ==
  /\ m.messageId # NoId
  /\ Has(messageHandlers, m.messageId)
  /\ m.type # NoType
  /\ IncludesResponse(m.type)

HandleMessageHandler(m) == Get(messageHandlers, m.messageId)

\* background-script.js listener: the call whose handler the event settles, if any.
BgListenerAccepts(m) ==
  /\ m.type = "glassBackgroundScriptResponse"
  /\ m.messageId # NoId
  /\ Has(pendingRequests, m.messageId)

BgListenerHandler(m) == Get(pendingRequests, m.messageId)

\* callRetrieveUpdateSets handler of call c
RetrieveHandlerAccepts(c, m) ==
  /\ calls[c].listening
  /\ m.type = "glassRetrieveUpdateSetsResponse"
  /\ m.messageId = calls[c].id

\* api-bridge.js listener, as far as the clients see it: the request is received.
BridgeReceives(m) ==
  /\ snEzApiBridge
  /\ m.type # NoType
  /\ m.messageId # NoId
  /\ m.type \in RequestTypes

\* _handleMessage: this.messageHandlers.delete(messageId)
HandleMessageDelete(table, id) == Delete(table, id)
\* Faulty variant: the listener leaves the entry in pendingRequests.
BgListenerKeep(table, id) == table
\* background-script.js listener: pendingRequests.delete(messageId)
BgListenerDelete(table, id) == Delete(table, id)

Settled(c) == calls[c].result.kind # "none"

\* A response event that carries the id of call c.
IsResponseFor(c, m) ==
  calls[c].id # NoId /\ m.messageId = calls[c].id /\ m.type \in ResponseTypes

\* One message event is dispatched to every listener on the window; rest is the
\* queue it leaves, inbox the requests the bridge has still to answer.
Dispatch(m, rest, inbox) ==
  /\ LET apiHit == IF HandleMessageAccepts(m) THEN {HandleMessageHandler(m)} ELSE {}
         bgHit == IF BgListenerAccepts(m) THEN {BgListenerHandler(m)} ELSE {}
         retHit == {c \in Calls : RetrieveHandlerAccepts(c, m)}
         readyHit == readyHandlerOn /\ m.type = "glassBridgeReady"
         seen == [c \in Calls |->
                    [calls[c] EXCEPT !.late = @ \/ (IsResponseFor(c, m) /\ Settled(c))]]
     IN
     /\ queue' = rest
     /\ messageHandlers' = IF apiHit # {}
                           THEN HandleMessageDelete(messageHandlers, m.messageId)
                           ELSE messageHandlers
     /\ pendingRequests' = IF bgHit # {} THEN BgListenerDelete(pendingRequests, m.messageId)
                           ELSE pendingRequests
     /\ calls' =
          [c \in Calls |->
             LET gone == \/ <<calls[c].id, c>> \in messageHandlers \ messageHandlers'
                         \/ <<calls[c].id, c>> \in pendingRequests \ pendingRequests'
                 rec == [seen[c] EXCEPT !.removed = IF gone THEN @ + 1 ELSE @]
             IN
             IF c \in apiHit
             THEN Settle([rec EXCEPT !.timeoutArmed = FALSE], "resolved", "response", m)
             ELSE IF c \in bgHit
             THEN Settle([rec EXCEPT !.timeoutArmed = FALSE],
                         IF m.payload = "error" THEN "rejected" ELSE "resolved",
                         "response", m)
             ELSE IF c \in retHit
             THEN Settle([rec EXCEPT !.listening = FALSE], "resolved", "response", m)
             ELSE rec]
     /\ IF readyHit
        THEN /\ readyHandlerOn' = FALSE
             /\ bridgeReady' = TRUE
             /\ bridgeReadyPromise' = IF bridgeReadyPromise = "pending" THEN "resolved"
                                      ELSE bridgeReadyPromise
        ELSE UNCHANGED <<readyHandlerOn, bridgeReady, bridgeReadyPromise>>
     /\ bridgeInbox' = IF BridgeReceives(m) THEN inbox \cup {m} ELSE inbox
  /\ UNCHANGED <<now, script, fallbackArmed, injectCount, messageIdCounter, bgCounter,
                 cacheVars, snEzApiBridge, bridgeVars>>

\* The event loop dispatches the oldest posted message.
Deliver ==
  /\ queue # <<>>
  /\ TaskMayRun
  /\ Dispatch(Head(queue), Tail(queue), bridgeInbox)
  /\ UNCHANGED foreignLeft

\* ------------------------------------------------------------- environment
\* The bridge answers a request it received (api-bridge.js: a handler posts the paired
\* response type with the request's messageId and what the request asked for, or an
\* error). It posts when the network answers, which is whenever the network likes, so
\* the response event is dispatched at any point between the others.
ResponseArrives(m, p) ==
  /\ m \in bridgeInbox
  /\ TaskMayRun
  /\ Dispatch(Message(ResponseType(m.type), m.messageId, m.data, p), queue, bridgeInbox \ {m})
  /\ UNCHANGED foreignLeft

\* A message event from another script of the page that repeats the response to a
\* request, or carries its id and no type. Such a script posts whenever it likes, so
\* its event is dispatched at any point between the others.
ForeignTypes(c) == {ResponseType(calls[c].type), NoType}

DeliverForeign(c, t) ==
  /\ foreignLeft > 0
  /\ calls[c].id # NoId
  /\ t \in ForeignTypes(c)
  /\ foreignLeft' = foreignLeft - 1
  /\ TaskMayRun
  /\ Dispatch(Message(t, calls[c].id, c, "ok"), queue, bridgeInbox)

\* ---------------------------------------------------------- api-bridge.js
\* What a handler reads from the page when it runs: window.g_ck (unset or empty: "");
\* the g_ck an inline script assigns ("null": no script matches); the value of the
\* first glide_user_session or JSESSIONID cookie ("null": no such cookie, "": one with
\* an empty value); window.NOW.user (absent, without sys_id and userID, with sys_id,
\* with userID only); the original user the 'user.impersonation' marker names in the
\* inline scripts and in the page the synchronous probe fetches ("": no marker, or
\* one that names nobody).
Pages ==
  [g_ck : {"", "g_ck"}, scriptToken : {"null", "scriptToken"},
   cookie : {"null", "", "cookieToken"}, nowUser : {"absent", "noId", "sys_id", "userID"},
   scriptsUser : {"", "scriptsUser"}, probeUser : {"", "probeUser"}]

\* A JavaScript value that is true in a condition.
Truthy(v) == v \notin {"", "null", "undefined"}

\* getSessionToken(): window.g_ck, else the inline scripts, else the cookies, else null.
GetSessionToken(page) ==
  IF Truthy(page.g_ck) THEN page.g_ck
  ELSE IF page.scriptToken # "null" THEN page.scriptToken
  ELSE IF page.cookie # "null" THEN page.cookie
  ELSE "null"

\* a || b
Or(a, b) == IF Truthy(a) THEN a ELSE b

\* window.postMessage({type, messageId, ...}) from a handler that has finished.
Respond(op, t, text) ==
  LET msg == Message(t, op.msg.messageId, op.msg.data, text) IN
  [op |-> [op EXCEPT !.stage = "done", !.timeout = 0, !.responses = @ + 1,
                     !.respType = msg.type, !.respId = msg.messageId,
                     !.respText = text],
   posts |-> <<msg>>]

\* xhr.open(..., true), xhr.timeout = ms, xhr.send()
StartXhr(op, ms) ==
  [op |-> [op EXCEPT !.stage = "xhr", !.timeout = ms, !.asyncOps = @ + 1], posts |-> <<>>]

\* fetch(url, {...}): no signal, no timer
StartFetch(op) ==
  [op |-> [op EXCEPT !.stage = "fetch", !.timeout = 0, !.asyncOps = @ + 1], posts |-> <<>>]

\* An exception leaves the handler and the listener.
Throw(op) ==
  [op |-> [op EXCEPT !.stage = "threw", !.uncaught = @ + 1], posts |-> <<>>]

HandleApiRequest(op, page) == StartXhr(op, XhrTimeout)

\* handleImpersonateRequest: POST to the username of the request.
HandleImpersonateRequest(op, page) ==
  StartFetch([op EXCEPT !.target = "data.username"])


\* getImpersonatingUser: the scripts of the page, else the synchronous probe.
GetImpersonatingUser(op, page) ==
  IF Truthy(page.scriptsUser)
  THEN [op EXCEPT !.found = page.scriptsUser]
  ELSE [op EXCEPT !.probes = @ + 1, !.found = Or(page.probeUser, "")]

\* fetch(instanceUrl + '/api/now/ui/impersonate/' + encodeURIComponent(user), POST)
StartImpersonate(op, user) == StartFetch([op EXCEPT !.target = user])

\* Faulty variant: the POST goes out whether or not an original user was found.
HandleEndImpersonateRequestAlways(op, page) ==
  StartImpersonate(GetImpersonatingUser(op, page), GetImpersonatingUser(op, page).found)

HandleEndImpersonateRequest(op, page) ==
  LET read == GetImpersonatingUser(op, page)
      originalUser == read.found
  IN IF ~Truthy(originalUser)
     THEN Respond(read, "snEzEndImpersonateResponse",
                  "success: false, error: You are not impersonating anyone")
     ELSE StartImpersonate(read, originalUser)

\* user.sys_id || user.userID of a user object that has the one, the other or neither
UserId(user) ==
  CASE user = "sys_id" -> Or("sys_id", "undefined")
    [] user = "userID" -> Or("undefined", "userID")
    [] OTHER -> Or("undefined", "undefined")

\* The user: {sys_id, user_name} a current-user response carries.
UserResponse(id) ==
  CASE id = "sys_id" -> "user {sys_id: sys_id}"
    [] id = "userID" -> "user {sys_id: userID}"
    [] OTHER -> "user {sys_id: undefined}"

\* getCurrentUserInfo: window.NOW.user if it yields an id, else the session API.
GetCurrentUserInfo(op, page) ==
  IF page.nowUser # "absent" /\ Truthy(UserId(page.nowUser))
  THEN Respond([op EXCEPT !.found = UserId(page.nowUser)], "snEzCurrentUserResponse",
               UserResponse(UserId(page.nowUser)))
  ELSE StartXhr(op, SessionXhrTimeout)

\* xhr.open(method, url, true) and xhr.setRequestHeader(key, ...) throw on a method or
\* header name that is not valid; nothing in the handler catches.
HandleGenericApiRequest(op, page) ==
  IF op.msg.payload = "invalid"
  THEN Throw(op)
  ELSE StartXhr(op, XhrTimeout)

\* Faulty variant: the request is sent whether or not a token was found.
HandleBackgroundScriptRequestAnyway(op, page) ==
  StartFetch([op EXCEPT !.found = Or(Or(page.g_ck, GetSessionToken(page)), "")])

\* var g_ck = window.g_ck || getSessionToken() || ''
HandleBackgroundScriptRequest(op, page) ==
  LET g_ck == Or(Or(page.g_ck, GetSessionToken(page)), "")
      read == [op EXCEPT !.found = g_ck]
  IN IF ~Truthy(g_ck)
     THEN Respond(read, "glassBackgroundScriptResponse", "No authentication token available")
     ELSE StartFetch(read)

HandleRetrieveUpdateSetsRequest(op, page) ==
  IF ~Truthy(page.g_ck)
  THEN Respond(op, "glassRetrieveUpdateSetsResponse",
               "Session token (g_ck) not found. Please refresh the page.")
  ELSE StartFetch(op)

\* Faulty variant: the listener does not look for the type and the messageId first.
BridgeListenerUnguarded(op, page) ==
  LET t == op.msg.type IN
  CASE t = "snEzApiRequest" -> HandleApiRequest(op, page)
    [] t = "snEzImpersonateRequest" -> HandleImpersonateRequest(op, page)
    [] t = "snEzEndImpersonateRequest" -> HandleEndImpersonateRequest(op, page)
    [] t = "snEzCurrentUserRequest" -> GetCurrentUserInfo(op, page)
    [] t = "glassApiRequest" -> HandleGenericApiRequest(op, page)
    [] t = "glassBackgroundScriptRequest" -> HandleBackgroundScriptRequest(op, page)
    [] t = "glassRetrieveUpdateSetsRequest" -> HandleRetrieveUpdateSetsRequest(op, page)
    [] OTHER -> [op |-> op, posts |-> <<>>]

\* The message listener of api-bridge.js on one event.
BridgeListener(op, page) ==
  LET t == op.msg.type IN
  IF t = NoType \/ op.msg.messageId = NoId THEN [op |-> op, posts |-> <<>>]
  ELSE CASE t = "snEzApiRequest" -> HandleApiRequest(op, page)
         [] t = "snEzImpersonateRequest" -> HandleImpersonateRequest(op, page)
         [] t = "snEzEndImpersonateRequest" -> HandleEndImpersonateRequest(op, page)
         [] t = "snEzCurrentUserRequest" -> GetCurrentUserInfo(op, page)
         [] t = "glassApiRequest" -> HandleGenericApiRequest(op, page)
         [] t = "glassBackgroundScriptRequest" -> HandleBackgroundScriptRequest(op, page)
         [] t = "glassRetrieveUpdateSetsRequest" -> HandleRetrieveUpdateSetsRequest(op, page)
         [] OTHER -> [op |-> op, posts |-> <<>>]

\* The page values that decide what the handler of a message type does (a token that
\* only becomes a request header decides nothing); the other values are left at
\* those of a page that has none of them.
Reads(t) ==
  CASE t = "glassBackgroundScriptRequest" -> {"g_ck", "scriptToken", "cookie"}
    [] t = "glassRetrieveUpdateSetsRequest" -> {"g_ck"}
    [] t = "snEzCurrentUserRequest" -> {"nowUser"}
    [] t = "snEzEndImpersonateRequest" -> {"scriptsUser", "probeUser"}
    [] OTHER -> {}
BarePage ==
  [g_ck |-> "", scriptToken |-> "null", cookie |-> "null", nowUser |-> "absent",
   scriptsUser |-> "", probeUser |-> ""]
PagesRead(t) ==
  {page \in Pages : \A f \in DOMAIN page \ Reads(t) : page[f] = BarePage[f]}

\* Every listener the bridge script has added runs on the event.
RECURSIVE RunListeners(_, _, _)
RunListeners(n, out, page) ==
  IF n = 0 THEN out
  ELSE LET o == BridgeListener(out.op, page) IN
       RunListeners(n - 1, [op |-> o.op, posts |-> out.posts \o o.posts], page)

\* The bridge script is run in the page (by the client's injection or by anyone else).
InjectBridge ==
  /\ injections < MaxInjections
  /\ injections' = injections + 1
  /\ BridgeScript
  /\ UNCHANGED <<now, calls, readyVars, tableVars, cacheVars, bridgeInbox, foreignLeft, ops>>

\* The messageId a caller gives its r-th message.
RequestId(r) == GenerateMessageId(0, r)

\* A caller posts its next message to the bridge.
PostRequest(r, t, p) ==
  /\ ops[r].stage = "unsent"
  /\ \A d \in Reqs : d < r => ops[d].stage # "unsent"
  /\ p = "invalid" => t = "glassApiRequest"
  /\ LET m == Message(t, RequestId(r), r, p) IN
     /\ ops' = [ops EXCEPT ![r] = [IdleOp EXCEPT !.msg = m, !.stage = "posted"]]
     /\ queue' = Append(queue, m)
  /\ UNCHANGED <<now, calls, readyVars, tableVars, cacheVars, snEzApiBridge, bridgeInbox,
                 foreignLeft, listeners, injections>>

\* The event loop dispatches the oldest posted message to the listeners of the bridge.
\* Some script of the page posts a message of a request type that carries no messageId.
PostWithoutId(r, t) ==
  /\ ops[r].stage = "unsent"
  /\ \A d \in Reqs : d < r => ops[d].stage # "unsent"
  /\ LET m == Message(t, NoId, r, "req") IN
     /\ ops' = [ops EXCEPT ![r] = [IdleOp EXCEPT !.msg = m, !.stage = "posted"]]
     /\ queue' = Append(queue, m)
  /\ UNCHANGED <<now, calls, readyVars, tableVars, cacheVars, snEzApiBridge, bridgeInbox,
                 foreignLeft, listeners, injections>>

BridgeDeliver ==
  /\ queue # <<>>
  /\ LET m == Head(queue) IN
     IF m.data \in Reqs /\ m = ops[m.data].msg
     THEN \E page \in PagesRead(m.type) :
            LET out == RunListeners(listeners,
                                    [op |-> [ops[m.data] EXCEPT !.stage = "ignored",
                                                                !.rerun = injections > 1],
                                     posts |-> <<>>], page)
            IN /\ ops' = [ops EXCEPT ![m.data] = out.op]
               /\ queue' = Tail(queue) \o out.posts
     ELSE \* a response of the bridge, or its ready signal, comes back to its listener
          \E page \in PagesRead(m.type) :
            LET out == RunListeners(listeners, [op |-> [IdleOp EXCEPT !.msg = m],
                                                posts |-> <<>>], page)
            IN /\ queue' = Tail(queue) \o out.posts
               /\ ops' = IF m.data \in Reqs
                         THEN [ops EXCEPT ![m.data] =
                                 [@ EXCEPT !.asyncOps = @ + out.op.asyncOps,
                                           !.responses = @ + out.op.responses]]
                         ELSE ops
  /\ UNCHANGED <<now, calls, readyVars, tableVars, cacheVars, snEzApiBridge, bridgeInbox,
                 foreignLeft, listeners, injections>>

\* A step of the network on the operation op of message r: the answer is posted.
AnswerFrom(r, op, t, text) ==
  LET out == Respond(op, t, text) IN
  /\ ops' = [ops EXCEPT ![r] = out.op]
  /\ queue' = queue \o out.posts
  /\ UNCHANGED <<now, calls, readyVars, tableVars, cacheVars, snEzApiBridge, bridgeInbox,
                 foreignLeft, listeners, injections>>

Answer(r, t, text) == AnswerFrom(r, ops[r], t, text)

\* What the server answers: 2xx with the JSON asked for (for the session API a user
\* with sys_id, "ok", or with userID only); 2xx with JSON whose result.user has neither
\* id; 2xx with JSON without result.user; 2xx with a body that is no JSON; 401/403;
\* another status.
XhrOutcomes == {"ok", "okUserID", "okUserNoId", "okNoUser", "unparsable", "denied", "failed"}

\* sessionData.result.user of the session API's answer: which id it has, or "absent"
SessionUser(outcome) ==
  CASE outcome = "ok" -> "sys_id"
    [] outcome = "okUserID" -> "userID"
    [] outcome = "okUserNoId" -> "noId"
    [] OTHER -> "absent"

\* xhr.onload of the three XHR handlers
XhrOnloadText(t, outcome) ==
  CASE t = "snEzApiRequest" ->
         (CASE outcome \in {"ok", "okUserID", "okUserNoId", "okNoUser"} -> "result"
            [] outcome = "unparsable" -> "Invalid JSON response"
            [] outcome = "denied" -> "Authentication failed. Please ensure you are logged in."
            [] OTHER -> "API call failed: ")
    [] t = "snEzCurrentUserRequest" ->
         (CASE outcome \in {"ok", "okUserID", "okUserNoId"} ->
                 UserResponse(UserId(SessionUser(outcome)))
            [] outcome = "okNoUser" -> "Unable to determine current user from session"
            [] outcome = "unparsable" -> "Invalid session response"
            [] OTHER -> "Session API not available")
    [] t = "glassApiRequest" ->
         (CASE outcome \in {"ok", "okUserID", "okUserNoId", "okNoUser"} -> "result"
            [] outcome = "unparsable" -> "Invalid JSON response"
            [] OTHER -> "API call failed: ")

XhrOnload(r, outcome) ==
  /\ ops[r].stage = "xhr"
  /\ LET t == ops[r].msg.type
         read == IF t = "snEzCurrentUserRequest"
                 THEN [ops[r] EXCEPT !.found = UserId(SessionUser(outcome))]
                 ELSE ops[r]
     IN AnswerFrom(r, read, ResponseType(t), XhrOnloadText(t, outcome))

\* xhr.onerror
XhrOnerrorText(t) ==
  CASE t = "snEzApiRequest" -> "Network error - check your connection"
    [] t = "snEzCurrentUserRequest" -> "Network error getting session info"
    [] t = "glassApiRequest" -> "Network error"

XhrOnerror(r) ==
  /\ ops[r].stage = "xhr"
  /\ Answer(r, ResponseType(ops[r].msg.type), XhrOnerrorText(ops[r].msg.type))

\* xhr.ontimeout
XhrOntimeoutText(t) ==
  CASE t = "snEzApiRequest" -> "Request timed out - Server may be slow to respond"
    [] t = "snEzCurrentUserRequest" -> "Session API timeout"
    [] t = "glassApiRequest" -> "Request timed out"

XhrOntimeout(r) ==
  /\ ops[r].stage = "xhr"
  /\ ops[r].timeout > 0
  /\ Answer(r, ResponseType(ops[r].msg.type), XhrOntimeoutText(ops[r].msg.type))

ImpersonateTypes == {"snEzImpersonateRequest", "snEzEndImpersonateRequest"}

\* The .catch of the four fetch handlers
FetchCatchText(t) ==
  CASE t = "snEzImpersonateRequest" -> "success: false, error: Network error: error.message"
    [] t = "snEzEndImpersonateRequest" -> "success: false, error: error.message"
    [] t = "glassBackgroundScriptRequest" -> "error.message"
    [] t = "glassRetrieveUpdateSetsRequest" -> "error.message"

\* fetch resolves with a response: .then(response => ...)
FetchThen(r, ok) ==
  /\ ops[r].stage = "fetch"
  /\ LET t == ops[r].msg.type IN
     IF t \in ImpersonateTypes
     THEN IF ok
          THEN Answer(r, ResponseType(t), "success: true")
          ELSE \* return response.text().then(...)
               /\ ops' = [ops EXCEPT ![r] = [@ EXCEPT !.stage = "text"]]
               /\ UNCHANGED <<now, queue, calls, readyVars, tableVars, cacheVars,
                              snEzApiBridge, bridgeInbox, foreignLeft, listeners, injections>>
     ELSE IF ok
          THEN \* return response.text()
               /\ ops' = [ops EXCEPT ![r] = [@ EXCEPT !.stage = "text"]]
               /\ UNCHANGED <<now, queue, calls, readyVars, tableVars, cacheVars,
                              snEzApiBridge, bridgeInbox, foreignLeft, listeners, injections>>
          ELSE \* throw new Error('HTTP ' + status), caught by the .catch
               Answer(r, ResponseType(t), "HTTP status")

\* fetch rejects: the .catch
FetchCatch(r) ==
  /\ ops[r].stage = "fetch"
  /\ Answer(r, ResponseType(ops[r].msg.type), FetchCatchText(ops[r].msg.type))

\* response.text() resolves
TextThen(r) ==
  /\ ops[r].stage = "text"
  /\ LET t == ops[r].msg.type IN
     Answer(r, ResponseType(t),
            CASE t \in ImpersonateTypes -> "success: false, error: API returned: "
              [] t = "glassBackgroundScriptRequest" -> "html"
              [] t = "glassRetrieveUpdateSetsRequest" -> "trackerId")

\* response.text() rejects: the .catch
TextCatch(r) ==
  /\ ops[r].stage = "text"
  /\ Answer(r, ResponseType(ops[r].msg.type), FetchCatchText(ops[r].msg.type))

\* ------------------------------------------------------------ Command registry
\* String.prototype.toLowerCase on the tokens used here.
ToLowerCase(s) ==
  CASE s = "LS" -> "ls"
    [] s = "Ls" -> "ls"
    [] s = "L" -> "l"
    [] OTHER -> s

\* Descriptors handed to register. name: "undefined" when the property is absent;
\* aliases: an array of strings (isArray) or absent; execute and validate: present or not.
NoAliases == [isArray |-> FALSE, items |-> <<>>]
Array(items) == [isArray |-> TRUE, items |-> items]
Descriptors ==
  [name : {"undefined", "", "ls", "L"},
   aliases : {NoAliases, Array(<<"L", "LS">>)},
   execute : BOOLEAN, validate : BOOLEAN]

\* command.aliases.forEach(alias => this.aliases.set(alias.toLowerCase(), name))
RECURSIVE SetAliases(_, _, _)
SetAliases(als, items, name) ==
  IF items = <<>> THEN als
  ELSE SetAliases(Set(als, ToLowerCase(Head(items)), name), Tail(items), name)

\* Faulty variant: the aliases are stored before the descriptor is examined.
RegisterAliasesFirst(command, cmds, als) ==
  LET stored == IF command.aliases.isArray
                THEN SetAliases(als, command.aliases.items, ToLowerCase(command.name))
                ELSE als
  IN IF ~Truthy(command.name) \/ ~command.execute
     THEN [threw |-> TRUE, commands |-> cmds, aliases |-> stored]
     ELSE [threw |-> FALSE,
           commands |-> Set(cmds, ToLowerCase(command.name), command),
           aliases |-> stored]

\* register(command): the maps afterwards, and whether it threw.
Register(command, cmds, als) ==
  IF ~Truthy(command.name) \/ ~command.execute
  THEN [threw |-> TRUE, commands |-> cmds, aliases |-> als]
  ELSE [threw |-> FALSE,
        commands |-> Set(cmds, ToLowerCase(command.name), command),
        aliases |-> IF command.aliases.isArray
                    THEN SetAliases(als, command.aliases.items, ToLowerCase(command.name))
                    ELSE als]

\* Map.prototype.get
MapGet(table, key) == IF Has(table, key) THEN Get(table, key) ELSE UndefinedCommand

\* Faulty variant: an unknown token resolves to some registered command.
RegistryGetOrAny(cmds, als, name) ==
  LET normalizedName == ToLowerCase(name)
  IN IF Has(cmds, normalizedName) THEN MapGet(cmds, normalizedName)
     ELSE IF Has(als, normalizedName) THEN MapGet(cmds, Get(als, normalizedName))
     ELSE IF cmds # {} THEN (CHOOSE en \in cmds : TRUE)[2]
     ELSE NullCommand

\* get(name): the name map first, then the alias map.
RegistryGet(cmds, als, name) ==
  LET normalizedName == ToLowerCase(name)
  IN IF Has(cmds, normalizedName) THEN MapGet(cmds, normalizedName)
     ELSE IF Has(als, normalizedName) THEN MapGet(cmds, Get(als, normalizedName))
     ELSE NullCommand

\* A call of register with a fresh descriptor object (id: the order of the call).
RegisterCommand(d) ==
  LET command == [id |-> registrations + 1, name |-> d.name, aliases |-> d.aliases,
                  execute |-> d.execute, validate |-> d.validate]
      out == Register(command, commands, aliases)
  IN /\ registrations < MaxRegistrations
     /\ registrations' = registrations + 1
     /\ commands' = out.commands
     /\ aliases' = out.aliases
     /\ registered' = IF out.threw THEN registered ELSE registered \cup {command}
     /\ lastRegister' = [called |-> TRUE,
                         lacking |-> ~Truthy(d.name) \/ ~d.execute,
                         threw |-> out.threw]
     /\ UNCHANGED <<dispatch, fetchVars, helperVars, clientVars>>

\* Values a validate function returns.
True == [type |-> "boolean", value |-> "true"]
False == [type |-> "boolean", value |-> "false"]
Undefined == [type |-> "undefined", value |-> "undefined"]
Str(s) == [type |-> "string", value |-> s]
\* ToBoolean and String() on those values
ToBoolean(v) == v = True \/ (v.type = "string" /\ v.value # "")
String(v) == v.value

\* What a validate call does: returns a value or throws an Error with that message.
ValidateOutcomes ==
  [kind : {"returns"},
   value : {True, False, Undefined, Str(""), Str("Usage: ls <table>")}]
    \cup {[kind |-> "throws", value |-> Str("validate failed")]}
\* What an execute call does: returns a promise (or a plain value), or throws an Error.
ExecuteOutcomes == {"returns", "throws"}
\* What the functions of the resolved descriptor do in one dispatch; execute is only
\* reached after validate returned true.
Behaviours ==
  {b \in [validate : ValidateOutcomes, execute : ExecuteOutcomes] :
     b.execute = "returns" \/ (b.validate.kind = "returns" /\ b.validate.value = True)}

\* Command lines: characters grouped into words and runs of white space.
Lines ==
  {<<" ">>, <<"ls">>, <<" ", "Ls", " ", "incident">>, <<"L", " ">>,
   <<"unknownthing", " ", "arg1">>}

\* commandLine.trim().split(/\s+/)
Split(commandLine) ==
  LET words == SelectSeq(commandLine, LAMBDA w : w # " ")
  IN IF words = <<>> THEN <<"">> ELSE words

\* Faulty variant: nothing catches the error, the promise of executeCommand rejects.
ExecuteCommandThrow(d, message) == [d EXCEPT !.pc = "done", !.promise = "rejected"]

\* catch (error) { ui.showError(error.message) }
ExecuteCommandCatch(d, message) ==
  [d EXCEPT !.pc = "done", !.shown = Append(@, message), !.promise = "fulfilled"]

\* executeCommand(commandLine) up to the await of command.execute: registry.execute
\* within the try block.
ExecuteCommand(commandLine, b) ==
  LET v == b.validate
      x == b.execute
      parts == Split(commandLine)
      commandName == parts[1]
      command == RegistryGet(commands, aliases, commandName)
      d0 == [IdleDispatch EXCEPT !.commandName = commandName, !.command = command]
      d1 == [d0 EXCEPT !.validateCalls = 1, !.validated = v]
      d2 == [IF command.validate THEN d1 ELSE d0 EXCEPT !.executeCalls = 1]
  IN /\ dispatch.pc # "awaiting"
     /\ dispatch' =
          IF command.id = 0
          THEN ExecuteCommandCatch([d0 EXCEPT !.failure = "unknown command"],
                 "Unknown command: " \o commandName
                   \o ". Type 'help' for available commands.")
          ELSE IF command.validate /\ v.kind = "throws"
          THEN ExecuteCommandCatch([d1 EXCEPT !.failure = "validate threw"],
                 String(v.value))
          ELSE IF command.validate /\ v.value # True
          THEN ExecuteCommandCatch([d1 EXCEPT !.failure = "validate not true"],
                 IF ToBoolean(v.value) THEN String(v.value)
                 ELSE "Invalid arguments for " \o command.name)
          ELSE IF x = "throws"
          THEN ExecuteCommandCatch([d2 EXCEPT !.failure = "execute threw"],
                 "execute failed")
          ELSE [d2 EXCEPT !.pc = "awaiting", !.promise = "pending"]
     /\ UNCHANGED <<commands, aliases, registrations, registered, lastRegister, fetchVars,
                 helperVars, clientVars>>

\* The promise command.execute returned settles; the await in registry.execute resumes.
CommandSettles(ok) ==
  /\ dispatch.pc = "awaiting"
  /\ dispatch' = IF ok THEN [dispatch EXCEPT !.pc = "done", !.promise = "fulfilled"]
                 ELSE ExecuteCommandCatch([dispatch EXCEPT !.failure = "execute rejected"],
                                          "execute rejected")
  /\ UNCHANGED <<commands, aliases, registrations, registered, lastRegister, fetchVars,
                 helperVars, clientVars>>

\* ------------------------------------------------------------ Cached fetches
\* fetchTableDefinitions (list.js) and fetchUpdateSources (retrievesets) are the same
\* code over separate closures; cache.name says which closure this is.
CacheNames == {"tables", "sources"}

\* CACHE_DURATION of the closure
CacheDuration(name) ==
  IF name = "tables" THEN TablesCacheDuration ELSE SourcesCacheDuration

\* The times at which the clock is read: the page load and the ages around the
\* duration of an entry made at the page load.
PageLoad(name) == 2 * CacheDuration(name)
Times(name) ==
  {PageLoad(name) + d :
     d \in {0, CacheDuration(name) - 1, CacheDuration(name), CacheDuration(name) + 1}}

\* What localStorage holds at the page load: nothing, or an entry of an earlier page.
StoredAtLoad(name) ==
  {NoEntry, Entry(PageLoad(name) - CacheDuration(name)),
   Entry(PageLoad(name) - CacheDuration(name) + 1)}

\* The memory entry: cachedTables and cacheTimestamp.
Memory(c) == [present |-> c.cached, timestamp |-> c.cacheTimestamp]

\* Faulty variant: a memory entry of age CACHE_DURATION is still accepted.
CacheValidInclusive(c) ==
  c.cached /\ c.clock - c.cacheTimestamp <= CacheDuration(c.name)

\* cachedTables.length > 0 && Date.now() - cacheTimestamp < CACHE_DURATION
CacheValid(c) == c.cached /\ c.clock - c.cacheTimestamp < CacheDuration(c.name)

\* Faulty variant: a stored entry of age CACHE_DURATION is still accepted.
StorageValidInclusive(c) ==
  c.storage.present /\ c.clock - c.storage.timestamp <= CacheDuration(c.name)

\* loadCacheFromStorage(): cached && Date.now() - timestamp < CACHE_DURATION
StorageValid(c) ==
  c.storage.present /\ c.clock - c.storage.timestamp < CacheDuration(c.name)

\* loadCacheFromStorage(): the memory cache is replaced by a valid stored entry.
LoadCacheFromStorage(c) ==
  IF StorageValid(c)
  THEN [c EXCEPT !.cached = TRUE, !.cacheTimestamp = c.storage.timestamp]
  ELSE c

\* Faulty variant: a fetch in flight is not noticed.
FetchInFlightNever(c) == FALSE

\* isFetching && fetchPromise
FetchInFlight(c) == c.isFetching /\ c.fetchPromise # 0

\* Faulty variant: the body finishes without clearing the in-flight marker.
FetchFinallyKeepsMarker(c, p) == [c EXCEPT !.stage = [@ EXCEPT ![p] = "done"]]

\* finally { isFetching = false; fetchPromise = null }
FetchFinally(c, p) ==
  [c EXCEPT !.isFetching = FALSE, !.fetchPromise = 0, !.stage = [@ EXCEPT ![p] = "done"]]

\* The promises whose async body has not finished.
ActiveFetches(c) == {p \in FetchCalls : c.stage[p] \in {"instanceUrl", "tableGet"}}

\* The next call of the fetch function (0: the calls are used up).
NextFetchCall ==
  IF \A i \in FetchCalls : fetches[i].made THEN 0
  ELSE CHOOSE i \in FetchCalls :
         ~fetches[i].made /\ \A j \in FetchCalls : j < i => fetches[j].made

\* Call i of fetchTableDefinitions / fetchUpdateSources on the closure c, up to its
\* return: the closure and the record of the call afterwards. present: window.GlassAPI
\* and window.GlassContext exist.
FetchCall(c, i, present) ==
  LET seen == [NoFetch EXCEPT !.made = TRUE, !.active = ActiveFetches(c),
                              !.at = c.clock, !.mem = Memory(c), !.sto = c.storage]
  IN IF CacheValid(c) THEN [cache |-> c, fetch |-> seen]
     ELSE IF StorageValid(c) THEN [cache |-> LoadCacheFromStorage(c), fetch |-> seen]
     ELSE IF FetchInFlight(c)
     THEN [cache |-> c, fetch |-> [seen EXCEPT !.got = c.fetchPromise]]
     ELSE [fetch |-> [seen EXCEPT !.got = i, !.started = TRUE],
           cache |->
             IF present
             THEN [c EXCEPT !.isFetching = TRUE, !.fetchPromise = i,
                            !.stage = [@ EXCEPT ![i] = "instanceUrl"]]
             ELSE \* the body returns before any await: finally runs, then the
                  \* settled promise is assigned to fetchPromise
                  [FetchFinally(c, i) EXCEPT !.fetchPromise = i]]

\* A caller (the init timer, a command) calls the fetch function.
FetchTableDefinitions(present) ==
  /\ NextFetchCall # 0
  /\ LET out == FetchCall(cache, NextFetchCall, present) IN
     /\ cache' = out.cache
     /\ fetches' = [fetches EXCEPT ![NextFetchCall] = out.fetch]
  /\ UNCHANGED <<lastRead, registryVars, helperVars, clientVars>>

\* Faulty variant: the read never calls the fetch function.
ReadCacheNoRefresh(present) ==
  LET loaded == IF ~cache.cached THEN LoadCacheFromStorage(cache) ELSE cache
  IN /\ cache' = loaded
     /\ lastRead' = [made |-> TRUE, at |-> cache.clock, mem |-> Memory(cache),
                     sto |-> cache.storage, loaded |-> loaded # cache, call |-> 0,
                     returned |-> Memory(loaded)]
     /\ UNCHANGED fetches

\* The body of getTableDefinitions() / getUpdateSources(): load the stored entry when
\* the memory cache is empty, call the fetch function (without awaiting it) when the
\* memory entry is stale, return cachedTables.
ReadCache(present) ==
  LET loaded == IF ~cache.cached THEN LoadCacheFromStorage(cache) ELSE cache
      stale == loaded.clock - loaded.cacheTimestamp >= CacheDuration(loaded.name)
      out == FetchCall(loaded, NextFetchCall, present)
      read == [made |-> TRUE, at |-> cache.clock, mem |-> Memory(cache),
               sto |-> cache.storage, loaded |-> loaded # cache, call |-> 0,
               returned |-> Memory(loaded)]
  IN IF stale
     THEN /\ NextFetchCall # 0
          /\ cache' = out.cache
          /\ fetches' = [fetches EXCEPT ![NextFetchCall] = out.fetch]
          /\ lastRead' = [read EXCEPT !.call = NextFetchCall,
                                      !.returned = Memory(out.cache)]
     ELSE /\ cache' = loaded
          /\ lastRead' = read
          /\ UNCHANGED fetches

\* A caller (the suggestion list through window.GlassTableDefinitions) reads the cache.
GetTableDefinitions(present) ==
  /\ ReadCache(present)
  /\ UNCHANGED <<registryVars, helperVars, clientVars>>

\* await context.getInstanceUrl() resumes: with a url api.tableGet goes out, without
\* one the body returns cachedTables.
InstanceUrlResolves(p, url) ==
  /\ cache.stage[p] = "instanceUrl"
  /\ cache' = IF url THEN [cache EXCEPT !.stage = [@ EXCEPT ![p] = "tableGet"]]
              ELSE FetchFinally(cache, p)
  /\ UNCHANGED <<fetches, lastRead, registryVars, helperVars, clientVars>>

\* Faulty variant: the time of the fetch is kept whatever the request returned.
TableGetSettlesStamps(p, outcome, saved) ==
  /\ cache.stage[p] = "tableGet"
  /\ cache' =
       IF outcome = "rows"
       THEN FetchFinally([cache EXCEPT !.cached = TRUE, !.cacheTimestamp = cache.clock,
                                       !.storage = IF saved THEN Entry(cache.clock) ELSE @],
                         p)
       ELSE FetchFinally([cache EXCEPT !.cacheTimestamp = cache.clock], p)
  /\ UNCHANGED <<fetches, lastRead, registryVars, helperVars, clientVars>>

\* await api.tableGet(...) resumes: rows are cached and saved (localStorage.setItem may
\* throw, which is swallowed); an empty result or a rejection leaves the cache.
TableGetSettles(p, outcome, saved) ==
  /\ cache.stage[p] = "tableGet"
  /\ cache' =
       IF outcome = "rows"
       THEN FetchFinally([cache EXCEPT !.cached = TRUE, !.cacheTimestamp = cache.clock,
                                       !.storage = IF saved THEN Entry(cache.clock) ELSE @],
                         p)
       ELSE FetchFinally(cache, p)
  /\ UNCHANGED <<fetches, lastRead, registryVars, helperVars, clientVars>>

\* Time passes: Date.now() returns a later value.
TimePasses(t) ==
  /\ t > cache.clock
  /\ cache' = [cache EXCEPT !.clock = t]
  /\ UNCHANGED <<fetches, lastRead, registryVars, helperVars, clientVars>>

\* ------------------------------------------------------------ Cache lookups
\* Strings are sequences of characters. String.prototype.toLowerCase(), character by
\* character, for the letters the model uses.
LowerChar(ch) ==
  CASE ch = "A" -> "a" [] ch = "B" -> "b" [] ch = "X" -> "x" [] OTHER -> ch
LowerCase(s) == [i \in 1..Len(s) |-> LowerChar(s[i])]

\* String.prototype.startsWith / includes
StartsWith(s, p) == Len(p) <= Len(s) /\ SubSeq(s, 1, Len(p)) = p
Includes(s, p) == \E i \in 0..(Len(s) - Len(p)) : SubSeq(s, i + 1, i + Len(p)) = p

\* Array.prototype.find: the first element passing the test (<<>>: undefined)
Find(array, Test(_)) ==
  LET found == SelectSeq(array, Test) IN IF found = <<>> THEN <<>> ELSE <<found[1]>>

\* Array.prototype.slice(0, n)
Slice(array, n) == SubSeq(array, 1, IF Len(array) < n THEN Len(array) ELSE n)

\* Array.prototype.sort((a, b) => a.table.length - b.table.length): stable
RECURSIVE SortByLength(_)
SortByLength(array) ==
  IF array = <<>> THEN <<>>
  ELSE LET shortest == CHOOSE n \in {Len(array[i].table) : i \in 1..Len(array)} :
                         \A i \in 1..Len(array) : n <= Len(array[i].table)
           IsShortest(def) == Len(def.table) = shortest
           IsLonger(def) == Len(def.table) # shortest
       IN SelectSeq(array, IsShortest) \o SortByLength(SelectSeq(array, IsLonger))

\* Faulty variant: the display name is looked for before the table name.
ResolveTableNameByName(tables, input) ==
  LET lowerInput == LowerCase(input)
      TableIs(def) == LowerCase(def.table) = lowerInput
      NameIs(def) == LowerCase(def.name) = lowerInput
  IN IF Find(tables, NameIs) # <<>> THEN Find(tables, NameIs)[1].table
     ELSE IF Find(tables, TableIs) # <<>> THEN Find(tables, TableIs)[1].table
     ELSE LowerCase(input)

\* resolveTableName(input) over the array getTableDefinitions() returned
ResolveTableName(tables, input) ==
  LET lowerInput == LowerCase(input)
      TableIs(def) == LowerCase(def.table) = lowerInput
      NameIs(def) == LowerCase(def.name) = lowerInput
  IN IF Find(tables, TableIs) # <<>> THEN Find(tables, TableIs)[1].table
     ELSE IF Find(tables, NameIs) # <<>> THEN Find(tables, NameIs)[1].table
     ELSE LowerCase(input)

\* findMatchingTables(input) over the array getTableDefinitions() returned
FindMatchingTables(tables, input) ==
  LET lowerInput == LowerCase(input)
      Starts(def) == \/ StartsWith(LowerCase(def.name), lowerInput)
                     \/ StartsWith(LowerCase(def.table), lowerInput)
      Contains(def) == /\ ~Starts(def)
                       /\ \/ Includes(LowerCase(def.name), lowerInput)
                          \/ Includes(LowerCase(def.table), lowerInput)
  IN IF input = <<>> THEN <<>>
     ELSE Slice(SortByLength(SelectSeq(tables, Starts))
                  \o SortByLength(SelectSeq(tables, Contains)), MaxResults)

\* findMatchingSources(input) over the array getUpdateSources() returned
FindMatchingSources(sources, input) ==
  LET lowerInput == LowerCase(input)
      Starts(s) == StartsWith(LowerCase(s.name), lowerInput)
      Contains(s) == ~Starts(s) /\ Includes(LowerCase(s.name), lowerInput)
  IN IF input = <<>> THEN sources
     ELSE Slice(SelectSeq(sources, Starts) \o SelectSeq(sources, Contains), MaxResults)

\* The rows of sys_db_object the model draws caches from: { name: label, table: name }
TablePool ==
  {[name |-> <<"B", "a">>, table |-> <<"a">>],
   [name |-> <<"B">>, table |-> <<"b", "a">>],
   [name |-> <<"a", "b">>, table |-> <<"a", "b", "b">>],
   [name |-> <<"x">>, table |-> <<"x", "a", "b">>],
   [name |-> <<"X", "x">>, table |-> <<"x", "x">>]}

\* The rows of sys_update_set_source: { name, sys_id }, sys_ids of one length
SourcePool ==
  {[name |-> <<"B", "a">>, sys_id |-> <<"x", "1">>],
   [name |-> <<"b", "a", "b">>, sys_id |-> <<"a", "2">>],
   [name |-> <<"a", "b">>, sys_id |-> <<"x", "3">>],
   [name |-> <<"X", "x">>, sys_id |-> <<"x", "4">>]}

\* The arrays of up to MaxPicked different rows of a pool, in every order.
Arrays(pool) ==
  {array \in UNION {[1..n -> pool] : n \in 0..MaxPicked} :
     \A i, j \in DOMAIN array : i # j => array[i] # array[j]}

\* An instance with MaxItems rows that all start with one letter.
ManyTables ==
  [i \in 1..MaxItems |->
     [name |-> <<"a", ToString(i)>>,
      table |-> <<"a">> \o [k \in 1..(i % 3) |-> "b"] \o <<ToString(i)>>]]
ManySources ==
  [i \in 1..MaxItems |-> [name |-> <<"a", ToString(i)>>, sys_id |-> <<"x", ToString(i)>>]]

\* What the instance can serve to a closure.
Rows(name) ==
  IF name = "tables" THEN Arrays(TablePool) \cup {ManyTables}
  ELSE Arrays(SourcePool) \cup {ManySources}

\* What the user types.
Queries ==
  {<<>>, <<"a">>, <<"A">>, <<"b", "a">>, <<"B">>, <<"X", "a">>, <<"a", "b", "b">>}

\* cachedTables / cachedSources
Cached(c) == IF c.cached THEN rows ELSE <<>>

\* The command handler (list, retrievesets) resolves what the user typed.
CallResolveTableName(input, present) ==
  /\ cache.name = "tables"
  /\ ReadCache(present)
  /\ lookup' = [op |-> "resolveTableName", input |-> input, over |-> Cached(cache'),
                result |-> ResolveTableName(Cached(cache'), input)]
  /\ UNCHANGED <<rows, parseVars, sessionVars, registryVars, clientVars>>

\* The suggestion list asks for the tables matching what the user typed; an empty
\* input returns before the cache is read.
CallFindMatchingTables(input, present) ==
  /\ cache.name = "tables"
  /\ IF input = <<>> THEN UNCHANGED fetchVars ELSE ReadCache(present)
  /\ lookup' = [op |-> "findMatchingTables", input |-> input, over |-> Cached(cache'),
                result |-> FindMatchingTables(Cached(cache'), input)]
  /\ UNCHANGED <<rows, parseVars, sessionVars, registryVars, clientVars>>

\* The suggestion list asks for the sources matching what the user typed.
CallFindMatchingSources(input, present) ==
  /\ cache.name = "sources"
  /\ ReadCache(present)
  /\ lookup' = [op |-> "findMatchingSources", input |-> input, over |-> Cached(cache'),
                result |-> FindMatchingSources(Cached(cache'), input)]
  /\ UNCHANGED <<rows, parseVars, sessionVars, registryVars, clientVars>>

\* ------------------------------------------------------------ Script output
\* The response of the script endpoint is a sequence of characters; a <BR/> tag and a
\* character entity count as one character each.
Prefix == <<"*", "*", "*", " ", "S", "c", "r", "i", "p", "t", ":", " ">>
MarkerPrefix == <<"#", "#", "#">>

\* The characters /[.*+?^${}()|[\]\\]/ matches.
MetaChars == {".", "*", "+", "?", "^", "$", "{", "}", "(", ")", "|", "[", "]", "\\"}

\* Faulty variant: the marker is used as a pattern as it is.
EscapeRegExpNone(marker) == marker

\* marker.replace(/[.*+?^${}()|[\]\\]/g, '\\$&'): the pattern source of the marker
RECURSIVE EscapeRegExp(_)
EscapeRegExp(marker) ==
  IF marker = <<>> THEN <<>>
  ELSE (IF Head(marker) \in MetaChars THEN <<"\\", Head(marker)>> ELSE <<Head(marker)>>)
         \o EscapeRegExp(Tail(marker))

\* new RegExp(source), for a source of characters, escaped characters and dots: the
\* atoms the pattern matches one after the other.
RECURSIVE RegExpAtoms(_)
RegExpAtoms(source) ==
  IF source = <<>> THEN <<>>
  ELSE IF Head(source) = "\\" /\ Len(source) >= 2
  THEN <<[kind |-> "literal", ch |-> source[2]]>> \o RegExpAtoms(SubSeq(source, 3, Len(source)))
  ELSE IF Head(source) = "."
  THEN <<[kind |-> "any", ch |-> "."]>> \o RegExpAtoms(Tail(source))
  ELSE <<[kind |-> "literal", ch |-> Head(source)]>> \o RegExpAtoms(Tail(source))

\* One atom against one character; an unescaped dot matches all but a line break.
AtomMatches(atom, ch) ==
  IF atom.kind = "any" THEN ch # "\n" ELSE ch = atom.ch

\* The atoms match the text from offset pos on.
MatchesAt(text, atoms, pos) ==
  /\ pos + Len(atoms) <= Len(text)
  /\ \A k \in 1..Len(atoms) : AtomMatches(atoms[k], text[pos + k])

\* text.match(new RegExp(`${start}([\\s\\S]*?)${end}`)): the leftmost match with the
\* shortest group; <<group>> for match[1], <<>> for no match (null).
Match(text, start, end) ==
  LET Ends(i) == {k \in (i + Len(start))..Len(text) : MatchesAt(text, end, k)}
      starts == {i \in 0..Len(text) : MatchesAt(text, start, i) /\ Ends(i) # {}}
  IN IF starts = {} THEN <<>>
     ELSE LET i == CHOOSE i \in starts : \A j \in starts : i <= j
              k == CHOOSE k \in Ends(i) : \A j \in Ends(i) : k <= j
          IN <<SubSeq(text, i + Len(start) + 1, k)>>

\* html.replace(/<BR\s*\/?>/gi, '\n') and decodeHtmlEntities, character by character
CleanChar(ch) ==
  CASE ch \in {"<BR/>", "<br>", "<BR />"} -> "\n"
    [] ch = "&quot;" -> "\""
    [] ch = "&amp;" -> "&"
    [] OTHER -> ch
CleanHtmlOutput(html) == [i \in 1..Len(html) |-> CleanChar(html[i])]

\* String.prototype.trim(), for blanks
RECURSIVE Trim(_)
Trim(s) ==
  IF s = <<>> THEN s
  ELSE IF Head(s) = " " THEN Trim(Tail(s))
  ELSE IF s[Len(s)] = " " THEN Trim(SubSeq(s, 1, Len(s) - 1))
  ELSE s

\* text.split('\n')
RECURSIVE SplitLines(_)
SplitLines(text) ==
  IF \A i \in 1..Len(text) : text[i] # "\n" THEN <<text>>
  ELSE LET i == CHOOSE i \in 1..Len(text) :
                  text[i] = "\n" /\ \A j \in 1..(i - 1) : text[j] # "\n"
       IN <<SubSeq(text, 1, i - 1)>> \o SplitLines(SubSeq(text, i + 1, Len(text)))

\* JSON.parse(line): the value of the JSON texts the model uses; anything else throws.
JsonTexts == {<<"1">>, <<"{", "}">>, <<"\"", "a", "\"">>}
IsJson(line) == Trim(line) \in JsonTexts
JsonParse(line) == [json |-> TRUE, text |-> Trim(line)]
\* A line kept as a string.
Raw(line) == [json |-> FALSE, text |-> line]

\* The body of lines.forEach in parseScriptLines: the records one line adds.
ParseLine(line) ==
  LET trimmed == Trim(line)
      cleanLine == IF StartsWith(trimmed, Prefix)
                   THEN SubSeq(trimmed, Len(Prefix) + 1, Len(trimmed))
                   ELSE trimmed
  IN IF cleanLine # <<>> /\ ~StartsWith(cleanLine, MarkerPrefix)
     THEN IF IsJson(cleanLine) THEN <<JsonParse(cleanLine)>>
          ELSE IF Trim(cleanLine) # <<>> THEN <<Raw(cleanLine)>> ELSE <<>>
     ELSE <<>>

RECURSIVE ParseLines(_)
ParseLines(lines) ==
  IF lines = <<>> THEN <<>> ELSE ParseLine(Head(lines)) \o ParseLines(Tail(lines))

\* parseScriptLines(text)
ParseScriptLines(text) ==
  LET NotBlank(line) == Trim(line) # <<>>
  IN ParseLines(SelectSeq(SplitLines(text), NotBlank))

\* The markers a caller passes.
ExtractMarkers == {<<"#">>, <<".">>, <<"#", ".">>}
StartMarker == <<"#", "#", "#", "R", "#", "#", "#">>
EndMarker == <<"#", "#", "#", "E", "#", "#", "#">>

\* The raw responses executeAndExtract is run on.
ExtractChars == {"#", ".", "a", "\n"}
RawResponses == UNION {[1..n -> ExtractChars] : n \in 0..MaxHtml}

\* The lines a script prints between the markers, as they arrive in the response.
ScriptLines ==
  {<<" ">>, <<"a">>, Prefix \o <<"1">>, MarkerPrefix \o <<"a">>,
   <<" ", "&quot;", "a", "&quot;", " ">>, Prefix \o MarkerPrefix, Prefix}
LineBreaks == {"\n", "<BR/>"}

\* lines joined by a line break, with a line break before and after
RECURSIVE Join(_, _)
Join(lines, br) ==
  IF lines = <<>> THEN <<br>> ELSE <<br>> \o Head(lines) \o Join(Tail(lines), br)

\* The response to a script that printed the lines; marked: the markers it printed,
\* "echoed" when the page echoes each printed marker as '*** Script: ' + marker.
Markings == {"echoed", "bare", "start", "none"}
ScriptResponse(lines, br, marked) ==
  <<"<", "P", "R", "E", ">">>
    \o (IF marked = "echoed" THEN Prefix ELSE <<>>)
    \o (IF marked # "none" THEN StartMarker ELSE <<>>)
    \o Join(lines, br)
    \o (IF marked = "echoed" THEN Prefix ELSE <<>>)
    \o (IF marked \in {"echoed", "bare"} THEN EndMarker ELSE <<>>)
    \o <<br, "<", "/", "P", "R", "E", ">">>

\* The lines of the region between the markers of that response.
RegionLines(lines, marked) ==
  <<<<>>>> \o lines \o (IF marked = "echoed" THEN <<Prefix>> ELSE <<<<>>>>)

\* executeAndExtract(script, startMarker, endMarker) once execute() has returned html
ExecuteAndExtract(html, startMarker, endMarker) ==
  /\ parseCall.op = "none"
  /\ parseCall' =
       [op |-> "executeAndExtract", html |-> html, startMarker |-> startMarker,
        endMarker |-> endMarker,
        result |-> Match(html, RegExpAtoms(EscapeRegExp(startMarker)),
                         RegExpAtoms(EscapeRegExp(endMarker)))]
  /\ UNCHANGED <<lookupVars, sessionVars, registryVars, fetchVars, clientVars>>

\* executeAndParse(script, startMarker, endMarker) once execute() has returned the
\* response to a script that printed the lines
ExecuteAndParse(lines, br, marked) ==
  /\ parseCall.op = "none"
  /\ LET cleanedHtml == CleanHtmlOutput(ScriptResponse(lines, br, marked))
         match == Match(cleanedHtml, RegExpAtoms(EscapeRegExp(StartMarker)),
                        RegExpAtoms(EscapeRegExp(EndMarker)))
     IN parseCall' =
          [op |-> "executeAndParse", region |-> RegionLines(lines, marked),
           marked |-> marked,
           result |-> IF match = <<>> THEN <<>> ELSE ParseScriptLines(match[1])]
  /\ UNCHANGED <<lookupVars, sessionVars, registryVars, fetchVars, clientVars>>

\* ------------------------------------------------------------ Specifications
\* ------------------------------------------------------------ Terminal
\* The command modules: each script registers one descriptor when it runs (name,
\* aliases, whether the descriptor has a validate function). No key occurs twice, so
\* the order of the scripts does not show in the maps.
Module(name, als, validate) ==
  [name |-> name, aliases |-> Array(als), execute |-> TRUE, validate |-> validate]
Modules ==
  <<Module("acl", <<"security", "permissions">>, TRUE),
    Module("cancelmytransaction", <<"cancel", "canceltransaction">>, TRUE),
    Module("keyword", <<"k", "kw", "search">>, TRUE),
    Module("code", <<"script">>, TRUE),
    Module("online", <<"who", "active">>, TRUE),
    Module("pop", <<"classic", "switch">>, TRUE),
    Module("do", <<"new", "create">>, TRUE),
    Module("config", <<"personalize", "configure">>, TRUE),
    Module("filter", <<"f", "query">>, TRUE),
    Module("help", <<"h", "?">>, FALSE),
    Module("impersonate", <<"imp", "su">>, TRUE),
    Module("list", <<"ls", "l">>, TRUE),
    Module("login", <<"signin", "li">>, TRUE),
    Module("postman", <<"pm", "collection">>, TRUE),
    Module("random", <<"rand", "r">>, TRUE),
    Module("record", <<"open", "goto">>, TRUE),
    Module("stats", <<"statistics", "performance">>, TRUE),
    Module("upload", <<"import", "load">>, TRUE),
    Module("home", <<>>, TRUE),
    Module("me", <<"myprofile", "profile">>, TRUE),
    Module("xml", <<"export", "unload">>, TRUE),
    Module("logout", <<"signout", "lo", "bye">>, TRUE),
    Module("cache", <<"flush", "clearcache">>, TRUE),
    Module("clear", <<"cls">>, FALSE),
    Module("separate", <<"lockout", "terminate">>, TRUE),
    Module("background", <<"bg", "scripts">>, TRUE),
    Module("retrievesets", <<"retrieve", "rs">>, TRUE),
    Module("explode", <<"ex", "reveal", "tn">>, FALSE),
    Module("play", <<"ball", "bounce", "fun">>, TRUE),
    Module("mirror", <<"mirroraccess", "cloneaccess">>, TRUE)>>

\* window.GlassCommandRegistry.register(command) at the end of the next module.
RegisterModule ==
  /\ registrations < Len(Modules)
  /\ LET d == Modules[registrations + 1]
         command == [id |-> registrations + 1, name |-> d.name, aliases |-> d.aliases,
                     execute |-> d.execute, validate |-> d.validate]
         out == Register(command, commands, aliases)
     IN /\ registrations' = registrations + 1
        /\ commands' = out.commands
        /\ aliases' = out.aliases
        /\ registered' = IF out.threw THEN registered ELSE registered \cup {command}
        /\ lastRegister' = [called |-> TRUE, lacking |-> FALSE, threw |-> out.threw]
  /\ UNCHANGED <<dispatch, fetchVars, helperVars, clientVars>>

\* The command table of the README: the names and aliases it lists.
ReadmeCommands ==
  {"acl", "security", "permissions", "background", "bg", "scripts",
   "cache", "flush", "clearcache", "clear", "cls",
   "cmt", "cancel", "canceltransaction", "code", "script",
   "config", "personalize", "configure", "do", "new", "create",
   "explode", "ex", "reveal", "tn", "filter", "f", "query", "help", "h", "?",
   "home", "impersonate", "imp", "su", "keyword", "k", "kw", "search",
   "list", "ls", "l", "login", "signin", "li", "logout", "signout", "lo", "bye",
   "me", "myprofile", "profile", "mirror", "mirroraccess", "cloneaccess",
   "online", "who", "active", "play", "ball", "bounce", "fun",
   "pop", "classic", "switch", "postman", "pm", "collection",
   "random", "rand", "r", "record", "open", "goto",
   "retrievesets", "retrieve", "rs", "separate", "lockout", "terminate",
   "stats", "statistics", "performance", "upload", "import", "load",
   "xml", "export", "unload"}

\* White space in a command line: blanks and tabs.
WhiteSpace == {" ", "\t"}

\* Faulty variant: the line is split as it was typed.
TrimLineNone(s) == s

\* String.prototype.trim() on a line of characters
RECURSIVE TrimLine(_)
TrimLine(s) ==
  IF s = <<>> THEN s
  ELSE IF Head(s) \in WhiteSpace THEN TrimLine(Tail(s))
  ELSE IF s[Len(s)] \in WhiteSpace THEN TrimLine(SubSeq(s, 1, Len(s) - 1))
  ELSE s

\* String.prototype.split(/\s+/): the pieces between the runs of white space; a run
\* at either end leaves an empty piece there.
RECURSIVE SplitWhiteSpace(_)
SplitWhiteSpace(s) ==
  IF \A i \in 1..Len(s) : s[i] \notin WhiteSpace THEN <<s>>
  ELSE LET i == CHOOSE i \in 1..Len(s) :
                  s[i] \in WhiteSpace /\ \A k \in 1..(i - 1) : s[k] \notin WhiteSpace
           rest == SubSeq(s, i + 1, Len(s))
           RECURSIVE SkipRun(_)
           SkipRun(t) == IF t # <<>> /\ Head(t) \in WhiteSpace THEN SkipRun(Tail(t)) ELSE t
       IN <<SubSeq(s, 1, i - 1)>> \o SplitWhiteSpace(SkipRun(rest))

\* The characters of a piece as one string.
RECURSIVE Concat(_)
Concat(chars) == IF chars = <<>> THEN "" ELSE Head(chars) \o Concat(Tail(chars))

\* commandLine.trim().split(/\s+/)
Parts(commandLine) ==
  LET pieces == SplitWhiteSpace(TrimLine(commandLine))
  IN [i \in 1..Len(pieces) |-> Concat(pieces[i])]

\* ui.showError / showSuccess / showInfo
Shown(r, type, message) == [r EXCEPT !.shown = Append(@, [type |-> type, message |-> message])]
\* The command has returned or thrown; main.js has shown what it threw.
Done(r) == [r EXCEPT !.pc = "done", !.step = "none"]
ShowError(r, message) == Done(Shown(r, "error", message))

\* The validate functions of the commands the lines of the model name.
Validate(name, args) ==
  CASE name = "impersonate" ->
         IF Len(args) = 0 THEN Str("Usage: impersonate <username|end>") ELSE True
    [] name = "separate" ->
         IF Len(args) # 1 THEN Str("Usage: separate <username>") ELSE True
    [] name = "list" ->
         IF Len(args) = 0 THEN Str("Usage: list <table_name>") ELSE True

\* GlassUI.clearHistory()
ClearHistory(t) == [t EXCEPT !.uiHistory = <<>>, !.uiIndex = -1]

\* command.execute(args, context) up to its first await (clear: to its end).
Execute(r, t) ==
  CASE r.name = "clear" ->
         [run |-> Done(Shown(r, "info", "Command history cleared.")),
          terminal |-> ClearHistory(t)]
    [] r.name \in {"impersonate", "separate"} ->
         [run |-> [r EXCEPT !.pc = "instanceUrl"], terminal |-> t]
    [] OTHER -> [run |-> [r EXCEPT !.pc = "executing"], terminal |-> t]

\* main.js executeCommand(commandLine): registry.execute in a try block whose catch
\* shows error.message.
RunCommand(commandLine, t) ==
  LET parts == Parts(commandLine)
      commandName == parts[1]
      args == Tail(parts)
      command == RegistryGet(commands, aliases, commandName)
      r0 == [IdleRun EXCEPT !.line = commandLine, !.commandName = commandName,
                            !.name = command.name, !.args = args]
      validationResult == Validate(command.name, args)
      r1 == IF command.validate
            THEN [r0 EXCEPT !.calls = Append(@, [fn |-> "validate", args |-> args])]
            ELSE r0
      r2 == [r1 EXCEPT !.calls = Append(@, [fn |-> "execute", args |-> args])]
  IN IF command.id = 0
     THEN [run |-> ShowError(r0, "Unknown command: " \o commandName
                                   \o ". Type 'help' for available commands."),
           terminal |-> t]
     ELSE IF command.validate /\ validationResult # True
     THEN [run |-> ShowError(r1, IF ToBoolean(validationResult)
                                 THEN String(validationResult)
                                 ELSE "Invalid arguments for " \o command.name),
           terminal |-> t]
     ELSE Execute(r2, t)

\* Lines typed into the input field.
TerminalLines ==
  {<<"c", "l", "s">>, <<" ", "c", "l", "e", "a", "r", "\t">>, <<"c", "m", "t">>,
   <<"s", "u">>, <<"s", "u", " ", "e", "n", "d">>, <<"\t", "s", "u", " ", " ", "a">>,
   <<"l", "\t", " ", "a", " ", "b", " ">>,
   <<"s", "e", "p", "a", "r", "a", "t", "e", " ", "a">>}

Loaded == registrations = Len(Modules)
Running == run.pc \notin {"idle", "done"}

\* floating-icon.js navigateHistory(dir): ArrowUp (-1) and ArrowDown (1) when the
\* carousel does not take the key.
NavigateHistory(dir) ==
  /\ Loaded /\ ~Running
  /\ terminal.commandHistory # <<>>
  /\ LET historyIndex == terminal.historyIndex + dir
         length == Len(terminal.commandHistory)
     IN terminal' =
          IF historyIndex < 0
          THEN [terminal EXCEPT !.historyIndex = -1, !.value = <<>>]
          ELSE IF historyIndex >= length
          THEN [terminal EXCEPT !.historyIndex = length, !.value = <<>>]
          ELSE [terminal EXCEPT !.historyIndex = historyIndex,
                                !.value = terminal.commandHistory[historyIndex + 1]]
  /\ UNCHANGED <<run, lookupVars, parseVars, registryVars, fetchVars, clientVars>>

\* Enter in the input field, which holds the line (typed, or recalled from the
\* history): floating-icon.js executeCommand() pushes the trimmed line on its history
\* and hands it to main.js executeCommand; a blank line returns at once.
Enter(line) ==
  /\ Loaded /\ ~Running
  /\ Len(terminal.commandHistory) < MaxEntered
  /\ LET cmd == TrimLine(line)
         pushed == [terminal EXCEPT !.commandHistory = Append(@, cmd),
                                    !.historyIndex = Len(terminal.commandHistory) + 1]
         out == RunCommand(cmd, pushed)
     IN /\ cmd # <<>>
        /\ run' = [out.run EXCEPT !.typed = line]
        /\ terminal' = [out.terminal EXCEPT !.value = <<>>]
  /\ UNCHANGED <<lookupVars, parseVars, registryVars, fetchVars, clientVars>>

\* The promise of a command the model does not follow settles.
ExecuteSettles(ok) ==
  /\ run.pc = "executing"
  /\ run' = IF ok THEN Done(run) ELSE ShowError(run, "execute rejected")
  /\ UNCHANGED <<terminal, lookupVars, parseVars, registryVars, fetchVars, clientVars>>

\* What the API client hands back for one request: the response message of the bridge
\* (success and error for the impersonation requests, error or a result of so many
\* records for the table requests), or the rejection of _sendMessage.
Response(success, error, records) ==
  [kind |-> "response", success |-> success, error |-> error, records |-> records]
Rejected(error) == [kind |-> "rejected", success |-> FALSE, error |-> error, records |-> 0]
Requested(r, method, target, step) ==
  [r EXCEPT !.pc = "request", !.step = step,
            !.requests = Append(@, [method |-> method, target |-> target])]
Answered(r, a) == [r EXCEPT !.answers = Append(@, a)]

\* impersonate.js END_KEYWORDS
EndKeywords == {"end", "exit", "stop", "quit", "off", "clear"}

\* impersonate.execute after await context.getInstanceUrl()
ImpersonateInstanceUrl(r, instanceUrl) ==
  LET username == r.args[1]
      target == ToLowerCase(r.args[1])
  IN IF ~instanceUrl
     THEN ShowError(r, "Unable to detect instance. Please ensure you are on a platform page.")
     ELSE IF target \in EndKeywords
     THEN Requested([Shown(r, "success", "Ending impersonation...") EXCEPT !.hidden = TRUE],
                    "POST", "snEzEndImpersonateRequest", "endImpersonate")
     ELSE Requested([Shown(r, "success", "Impersonating user: " \o username \o "...")
                       EXCEPT !.hidden = TRUE],
                    "POST", "snEzImpersonateRequest", "impersonate")

\* api.impersonate / api.endImpersonate return or throw, and the try block of
\* impersonate.execute goes on: context.reload(), or ui.show() and ui.showError.
ImpersonateSettles(r, a) ==
  LET fallback == IF r.step = "impersonate" THEN "Impersonation failed"
                  ELSE "End impersonation failed"
      message == IF a.kind = "rejected" \/ Truthy(a.error) THEN a.error ELSE fallback
  IN IF a.kind = "response" /\ a.success
     THEN Done([Answered(r, a) EXCEPT !.reloads = @ + 1])
     ELSE ShowError([Answered(r, a) EXCEPT !.hidden = FALSE],
                    IF r.step = "impersonate" THEN "Impersonation failed: " \o message
                    ELSE message)

ImpersonateAnswers ==
  {Response(TRUE, "", 0), Response(FALSE, "API returned: 403 Forbidden", 0),
   Response(FALSE, "", 0), Rejected("Request timed out")}

\* separate.execute after await context.getInstanceUrl()
SeparateInstanceUrl(r, instanceUrl) ==
  IF ~instanceUrl THEN ShowError(r, "Unable to detect instance.")
  ELSE [r EXCEPT !.pc = "bridgeReady"]

\* log(msg): the line is added to the log and the log is shown
Log(r, msg) == Shown(r, "info", msg)

\* separate.execute after await api.ensureBridgeReady(): the user is looked up
SeparateBridgeReady(r, ok) ==
  IF ~ok THEN ShowError(r, "Failed to prepare Platform API bridge.")
  ELSE Requested(Log(r, "Separating user: " \o r.args[1]), "GET", "sys_user", "users")

\* The for loops of separate.execute: the next DELETE of the loop, or what follows it.
DeleteNext(r, loop) ==
  CASE loop = "groups" ->
         IF r.left > 0 THEN Requested(r, "DELETE", "sys_user_grmember", "deleteGroup")
         ELSE Requested(r, "GET", "sys_user_has_role", "roles")
    [] loop = "roles" ->
         IF r.left > 0 THEN Requested(r, "DELETE", "sys_user_has_role", "deleteRole")
         ELSE Requested(r, "GET", "sys_user_has_role", "remaining")
    [] loop = "remaining" ->
         IF r.left > 0 THEN Requested(r, "DELETE", "sys_user_has_role", "deleteRemaining")
         ELSE Done(Shown(r, "success", "User " \o r.args[1] \o " is now separated."))

\* Faulty variant: a failed request is logged and the sequence goes on.
SeparateFailedSkip(r, a) ==
  CASE r.step = "users" -> Requested(Log(r, "SKIP"), "PATCH", "sys_user", "patch")
    [] r.step = "patch" -> Requested(Log(r, "SKIP"), "GET", "sys_user_grmember", "groups")
    [] r.step = "groups" -> DeleteNext([Log(r, "SKIP") EXCEPT !.left = 0], "groups")
    [] r.step = "deleteGroup" -> DeleteNext([Log(r, "SKIP") EXCEPT !.left = @ - 1], "groups")
    [] r.step = "roles" -> DeleteNext([Log(r, "SKIP") EXCEPT !.left = 0], "roles")
    [] r.step = "deleteRole" -> DeleteNext([Log(r, "SKIP") EXCEPT !.left = @ - 1], "roles")
    [] r.step = "remaining" -> DeleteNext([Log(r, "SKIP") EXCEPT !.left = 0], "remaining")

\* A request of the try block threw: catch (err) { ui.showError(...) }
SeparateFailed(r, a) == ShowError(r, "Separate failed: " \o a.error)

\* The awaited request of separate.execute settles and the try block goes on.
SeparateSettles(r0, a) ==
  LET r == Answered(r0, a)
      failed == a.kind = "rejected" \/ Truthy(a.error)
  IN IF r.step = "deleteRemaining"
     THEN \* try { await tableDelete(...) } catch (deleteErr) { log('SKIP ...') }
          DeleteNext([Log(r, IF failed THEN "SKIP" ELSE "DELETE sys_user_has_role")
                        EXCEPT !.left = @ - 1], "remaining")
     ELSE IF failed THEN SeparateFailed(r, a)
     ELSE CASE r.step = "users" ->
                 IF a.records = 0
                 THEN ShowError(Log(r, "GET sys_user"),
                                "Separate failed: User not found: " \o r.args[1])
                 ELSE Requested(Log(r, "GET sys_user"), "PATCH", "sys_user", "patch")
            [] r.step = "patch" ->
                 Requested(Log(r, "PATCH sys_user"), "GET", "sys_user_grmember", "groups")
            [] r.step = "groups" ->
                 DeleteNext([Log(r, "GET sys_user_grmember") EXCEPT !.left = a.records],
                            "groups")
            [] r.step = "deleteGroup" ->
                 DeleteNext([Log(r, "DELETE sys_user_grmember") EXCEPT !.left = @ - 1],
                            "groups")
            [] r.step = "roles" ->
                 DeleteNext([Log(r, "GET sys_user_has_role") EXCEPT !.left = a.records],
                            "roles")
            [] r.step = "deleteRole" ->
                 DeleteNext([Log(r, "DELETE sys_user_has_role") EXCEPT !.left = @ - 1],
                            "roles")
            [] r.step = "remaining" ->
                 DeleteNext([Log(r, "GET sys_user_has_role") EXCEPT !.left = a.records],
                            "remaining")

\* The answers to a request of separate.execute: the records of a query (the user
\* query asks for one), the empty result of a PATCH or DELETE, or an error.
TableAnswers(step) ==
  {Response(FALSE, "API call failed: 403 Forbidden", 0)}
    \cup {Response(TRUE, "", n) :
            n \in 0..(CASE step = "users" -> 1
                        [] step \in {"groups", "roles", "remaining"} -> MaxRecords
                        [] OTHER -> 0)}
Answers(step) ==
  IF step \in {"impersonate", "endImpersonate"} THEN ImpersonateAnswers
  ELSE TableAnswers(step)

\* await context.getInstanceUrl() resumes: the URL was detected or not.
InstanceUrlDetected(instanceUrl) ==
  /\ run.pc = "instanceUrl"
  /\ run' = IF run.name = "impersonate" THEN ImpersonateInstanceUrl(run, instanceUrl)
            ELSE SeparateInstanceUrl(run, instanceUrl)
  /\ UNCHANGED <<terminal, lookupVars, parseVars, registryVars, fetchVars, clientVars>>

\* await api.ensureBridgeReady() resumes or throws.
BridgeReadySettles(ok) ==
  /\ run.pc = "bridgeReady"
  /\ run' = SeparateBridgeReady(run, ok)
  /\ UNCHANGED <<terminal, lookupVars, parseVars, registryVars, fetchVars, clientVars>>

\* The request the command awaits settles.
ApiSettles(a) ==
  /\ run.pc = "request"
  /\ a \in Answers(run.step)
  /\ run' = IF run.name = "impersonate" THEN ImpersonateSettles(run, a)
            ELSE SeparateSettles(run, a)
  /\ UNCHANGED <<terminal, lookupVars, parseVars, registryVars, fetchVars, clientVars>>

Init == InitClient /\ InitFetch

\* GlassAPI and GlassBackgroundScript, the window and the bridge behind it.
ProtocolNext ==
  \/ ScriptLoad /\ UNCHANGED commandVars
  \/ ScriptError /\ UNCHANGED commandVars
  \/ FallbackFire /\ UNCHANGED commandVars
  \/ \E c \in Calls, t \in ApiCallTypes, ms \in {DefaultTimeout} :
       SendMessageStart(c, t, ms) /\ UNCHANGED commandVars
  \/ \E c \in Calls : ExecuteStart(c) /\ UNCHANGED commandVars
  \/ \E c \in Calls : SendMessageContinue(c) /\ UNCHANGED commandVars
  \/ \E c \in Calls : ExecuteContinue(c) /\ UNCHANGED commandVars
  \/ \E c \in Calls : PostFire(c) /\ UNCHANGED commandVars
  \/ \E c \in Calls : TimeoutFire(c) /\ UNCHANGED commandVars
  \/ \E c \in Calls : BgTimeoutFire(c) /\ UNCHANGED commandVars
  \/ Deliver /\ UNCHANGED commandVars
  \/ \E m \in bridgeInbox, p \in {"ok", "error"} : ResponseArrives(m, p) /\ UNCHANGED commandVars
  \/ \E c \in Calls, t \in ResponseTypes \cup {NoType} : DeliverForeign(c, t) /\ UNCHANGED commandVars

\* The retrievesets command.
RetrieveNext ==
  \/ \E c \in Calls : RetrieveStart(c) /\ UNCHANGED commandVars
  \/ \E c \in Calls : RetrieveContinue(c) /\ UNCHANGED commandVars
  \/ \E c \in Calls : FetchFinish(c) /\ UNCHANGED commandVars
  \/ \E c \in Calls : RetrieveTimeoutFire(c) /\ UNCHANGED commandVars

Next == ProtocolNext \/ RetrieveNext

Spec == Init /\ [][Next]_vars

ProtocolInit == InitClient /\ InitFetch /\ ~sourcesCached

ProtocolSpec == ProtocolInit /\ [][ProtocolNext]_vars

BridgeNext ==
  \/ InjectBridge /\ UNCHANGED commandVars
  \/ \E r \in Reqs, t \in RequestTypes \cup {NoType}, p \in {"req", "invalid"} :
       PostRequest(r, t, p) /\ UNCHANGED commandVars
  \/ \E r \in Reqs, t \in RequestTypes : PostWithoutId(r, t) /\ UNCHANGED commandVars
  \/ BridgeDeliver /\ UNCHANGED commandVars
  \/ \E r \in Reqs, outcome \in XhrOutcomes : XhrOnload(r, outcome) /\ UNCHANGED commandVars
  \/ \E r \in Reqs : XhrOnerror(r) /\ UNCHANGED commandVars
  \/ \E r \in Reqs : XhrOntimeout(r) /\ UNCHANGED commandVars
  \/ \E r \in Reqs, ok \in BOOLEAN : FetchThen(r, ok) /\ UNCHANGED commandVars
  \/ \E r \in Reqs : FetchCatch(r) /\ UNCHANGED commandVars
  \/ \E r \in Reqs : TextThen(r) /\ UNCHANGED commandVars
  \/ \E r \in Reqs : TextCatch(r) /\ UNCHANGED commandVars

BridgeSpec == ProtocolInit /\ [][BridgeNext]_vars

\* The command registry and the dispatch of command lines.
RegistryNext ==
  \/ \E d \in Descriptors : RegisterCommand(d)
  \/ \E commandLine \in Lines, b \in Behaviours : ExecuteCommand(commandLine, b)
  \/ \E ok \in BOOLEAN : CommandSettles(ok)

RegistrySpec == ProtocolInit /\ [][RegistryNext]_vars

\* One cache closure at the page load; localStorage may hold an entry of an earlier
\* page.
CacheInit ==
  /\ InitClient
  /\ ~sourcesCached
  /\ \E name \in CacheNames : \E storage \in StoredAtLoad(name) :
       cache = IdleCache(name, storage, PageLoad(name))
  /\ fetches = [i \in FetchCalls |-> NoFetch]
  /\ lastRead = NoRead
  /\ rows = <<>>
  /\ lookup = NoLookup

CacheNext ==
  \/ \E present \in BOOLEAN : FetchTableDefinitions(present)
  \/ \E present \in BOOLEAN : GetTableDefinitions(present)
  \/ \E p \in FetchCalls, url \in BOOLEAN : InstanceUrlResolves(p, url)
  \/ \E p \in FetchCalls, outcome \in {"rows", "empty", "error"}, saved \in BOOLEAN :
       TableGetSettles(p, outcome, saved)
  \/ \E t \in Times(cache.name) : TimePasses(t)

CacheSpec == CacheInit /\ [][CacheNext]_vars

\* One cache closure at the page load with a valid stored entry of an earlier page,
\* on an instance that serves some rows.
LookupInit ==
  /\ InitClient
  /\ ~sourcesCached
  /\ \E name \in CacheNames :
       /\ cache = IdleCache(name, Entry(PageLoad(name) - CacheDuration(name) + 1),
                            PageLoad(name))
       /\ rows \in Rows(name)
  /\ fetches = [i \in FetchCalls |-> NoFetch]
  /\ lastRead = NoRead
  /\ lookup = NoLookup

LookupNext ==
  \/ \E input \in Queries, present \in BOOLEAN : CallResolveTableName(input, present)
  \/ \E input \in Queries, present \in BOOLEAN : CallFindMatchingTables(input, present)
  \/ \E input \in Queries, present \in BOOLEAN : CallFindMatchingSources(input, present)

LookupSpec == LookupInit /\ [][LookupNext]_vars

\* One call per behaviour, on any response.
ParseNext ==
  \/ /\ parseCall.op = "none"
     /\ \E html \in RawResponses, startMarker \in ExtractMarkers,
           endMarker \in ExtractMarkers :
          ExecuteAndExtract(html, startMarker, endMarker)
  \/ /\ parseCall.op = "none"
     /\ \E lines \in UNION {[1..n -> ScriptLines] : n \in 0..MaxLines},
           br \in LineBreaks, marked \in Markings :
          ExecuteAndParse(lines, br, marked)

ParseSpec == ProtocolInit /\ [][ParseNext]_vars

\* _sendMessage called with its default timeout and with a timeout shorter than the
\* posting delay.
TimeoutNext ==
  \/ ScriptLoad /\ UNCHANGED commandVars
  \/ ScriptError /\ UNCHANGED commandVars
  \/ FallbackFire /\ UNCHANGED commandVars
  \/ \E c \in Calls, t \in ApiCallTypes, ms \in {ShortTimeout, DefaultTimeout} :
       SendMessageStart(c, t, ms) /\ UNCHANGED commandVars
  \/ \E c \in Calls : SendMessageContinue(c) /\ UNCHANGED commandVars
  \/ \E c \in Calls : PostFire(c) /\ UNCHANGED commandVars
  \/ \E c \in Calls : TimeoutFire(c) /\ UNCHANGED commandVars
  \/ Deliver /\ UNCHANGED commandVars
  \/ \E m \in bridgeInbox, p \in {"ok", "error"} : ResponseArrives(m, p) /\ UNCHANGED commandVars

TimeoutSpec == ProtocolInit /\ [][TimeoutNext]_vars

\* The terminal: the command scripts load, then lines are typed, recalled and entered.
TerminalNext ==
  \/ RegisterModule
  \/ \E dir \in {-1, 1} : NavigateHistory(dir)
  \/ \E line \in TerminalLines \cup {terminal.value} : Enter(line)
  \/ \E ok \in BOOLEAN : ExecuteSettles(ok)
  \/ \E instanceUrl \in BOOLEAN : InstanceUrlDetected(instanceUrl)
  \/ \E ok \in BOOLEAN : BridgeReadySettles(ok)
  \/ \E step \in {"impersonate", "users", "patch", "groups"} :
       \E a \in Answers(step) : ApiSettles(a)

TerminalSpec == ProtocolInit /\ [][TerminalNext]_vars

\* The event loop runs a queued continuation, an expired timer and a posted message;
\* nothing obliges the page, the network or another script to act.
FairSpec ==
  /\ ProtocolSpec
  /\ WF_vars(FallbackFire /\ UNCHANGED commandVars)
  /\ WF_vars(Deliver /\ UNCHANGED commandVars)
  /\ \A c \in Calls :
       /\ WF_vars(SendMessageContinue(c) /\ UNCHANGED commandVars)
       /\ WF_vars(ExecuteContinue(c) /\ UNCHANGED commandVars)
       /\ WF_vars(PostFire(c) /\ UNCHANGED commandVars)
       /\ WF_vars(TimeoutFire(c) /\ UNCHANGED commandVars)
       /\ WF_vars(BgTimeoutFire(c) /\ UNCHANGED commandVars)

\* ================================================================== claims
Requests == {c \in Calls : calls[c].path \in {"api", "bg"}}
Registered(c) == <<calls[c].id, c>> \in messageHandlers \cup pendingRequests

\* ---- C1
\* C1: a request of GlassAPI._sendMessage or GlassBackgroundScript.execute has resolve
\* or reject invoked at most once and its pending-table entry removed at most once; a
\* registered request is unsettled with its timer armed; a request settled by its
\* response or by its timeout has had its entry removed exactly once and its timer is
\* no longer armed, also after a late or a second response was dispatched for it.
C1_SettledAtMostOnce ==
  \A c \in Requests :
    /\ calls[c].settleCalls <= 1
    /\ calls[c].removed <= 1
    /\ Registered(c) => ~Settled(c) /\ calls[c].removed = 0 /\ calls[c].timeoutArmed
    /\ calls[c].result.kind \in {"response", "timeout"} =>
         ~Registered(c) /\ calls[c].removed = 1 /\ ~calls[c].timeoutArmed
                        /\ calls[c].settleCalls = 1

\* C1 case: one call rejected by its timeout and one resolved by its response, and a
\* further response was dispatched for each of them afterwards.
C1_LateAndDuplicate ==
  \E c, d \in Requests :
    /\ calls[c].result.kind = "timeout" /\ calls[c].late
    /\ calls[d].result.kind = "response" /\ calls[d].late

\* ---- C2
\* C2: a call settled by a response was settled by the response that carries its own
\* messageId (and so the data of its own request), whatever the order of the responses.
C2_OwnResponse ==
  \A c \in Requests :
    calls[c].result.kind = "response" =>
      /\ calls[c].result.msg.messageId = calls[c].id
      /\ calls[c].result.msg.data = c

\* C2 case: two requests were in flight with distinct ids, the later one has been
\* resolved by its response while the earlier one, received by the bridge, still waits.
C2_ReverseOrder ==
  \E c, d \in Requests :
    /\ c < d
    /\ calls[c].id # calls[d].id
    /\ calls[d].result.kind = "response"
    /\ calls[c].pc = "pending"
    /\ \E m \in bridgeInbox : m.messageId = calls[c].id

\* ---- C3
\* C3: the correlation ids generated in one page lifetime are pairwise distinct
\* (api.js, background-script.js and callRetrieveUpdateSets alike).
C3_IdsDistinct ==
  \A c, d \in Calls :
    c # d /\ calls[c].id # NoId /\ calls[d].id # NoId => calls[c].id # calls[d].id

C5_EveryCallSettles ==
  \A c \in Calls : (calls[c].pc = "awaitReady") ~> Settled(c)

\* ---- C6
\* C6: no request message is posted before the bridge is ready.
C6_PostedWhenReady ==
  \A c \in Calls : calls[c].postedReady # "notReady"

\* ---- C7
InjectedOnce ==
  /\ injectCount <= 1
  /\ (script = "none") = (injectCount = 0)
  /\ bridgeReady = (bridgeReadyPromise = "resolved")

ReadyStays ==
  /\ injectCount' >= injectCount
  /\ bridgeReady =>
       /\ bridgeReady'
       /\ injectCount' = injectCount
       /\ bridgeReadyPromise' = bridgeReadyPromise
       /\ \A c \in Calls :
            calls[c].pc = "idle" /\ calls'[c].pc = "awaitReady" => Runnable(c)'

\* C7: ensureBridgeReady injects the script at most once however many calls are made
\* before readiness; the callers waiting share one promise, so readiness releases all
\* of them; bridgeReady stays true once true; a call made after readiness neither
\* injects nor waits.
C7_EnsureReadyIdempotent == []InjectedOnce /\ [][ReadyStays]_vars

\* C7 case: two calls were made before readiness, the script went in once, and the
\* one readiness event has released both.
C7_TwoWaitersReleased ==
  /\ bridgeReady
  /\ injectCount = 1
  /\ \E c, d \in Requests :
       /\ c # d
       /\ calls[c].pc = "awaitReady" /\ Runnable(c)
       /\ calls[d].pc = "awaitReady" /\ Runnable(d)

\* ---- C8
\* C8 as stated: after any number of injections a request message triggers at most
\* one network operation and at most one response message.
C8_OneNetworkOperation ==
  \A r \in Reqs :
    /\ ops[r].asyncOps + ops[r].probes <= 1
    /\ ops[r].responses <= 1

\* C8: after any number of injections the bridge has one listener at most, and a
\* request message is handled once: at most one asynchronous network call, before it
\* at most one synchronous probe and that only for end-impersonate, and at most one
\* response message.
C8_HandledOnce ==
  /\ listeners <= 1
  /\ snEzApiBridge = (listeners = 1)
  /\ \A r \in Reqs :
       /\ ops[r].asyncOps <= 1
       /\ ops[r].probes <= 1
       /\ ops[r].probes = 1 => ops[r].msg.type = "snEzEndImpersonateRequest"
       /\ ops[r].responses <= 1

\* C8 case: the bridge script has run twice, and a request dispatched after that was
\* handled with one network call and answered with one response.
C8_HandledAfterReinjection ==
  \E r \in Reqs :
    /\ ops[r].rerun
    /\ ops[r].stage = "done"
    /\ ops[r].asyncOps = 1
    /\ ops[r].responses = 1

\* ---- C9
\* C9: for a message of a request type with a messageId the bridge posts exactly one
\* response, of the paired type and with the same messageId, on every outcome, and
\* no exception leaves the handler.
C9_ExactlyOneResponse ==
  \A r \in Reqs :
    ops[r].stage \in {"done", "threw"} =>
      /\ ops[r].uncaught = 0
      /\ ops[r].responses = 1
      /\ ops[r].respType = ResponseType(ops[r].msg.type)
      /\ ops[r].respId = ops[r].msg.messageId

\* ---- C10
\* C10: every network call a handler has in flight runs under a timeout of its own.
C10_EveryNetworkCallHasTimeout ==
  \A r \in Reqs :
    ops[r].stage \in {"xhr", "fetch", "text"} => ops[r].timeout > 0

\* ---- C11
Handled(r) == ops[r].stage \notin {"unsent", "posted", "ignored"}

\* C11: a run-script request handled while no session token is found (no window.g_ck,
\* no inline-script match, no session cookie value) is answered at once with the
\* no-token error and causes no network call; a network call was made only for a
\* request whose handler found a non-empty token.
C11_NoTokenNoNetwork ==
  \A r \in Reqs :
    Handled(r) /\ ops[r].msg.type = "glassBackgroundScriptRequest" =>
      /\ ops[r].found = "" =>
           /\ ops[r].asyncOps = 0
           /\ ops[r].stage = "done"
           /\ ops[r].responses = 1
           /\ ops[r].respType = "glassBackgroundScriptResponse"
           /\ ops[r].respText = "No authentication token available"
      /\ ops[r].asyncOps > 0 => Truthy(ops[r].found)

\* C11 case: a run-script request was handled on a page without any token and has
\* its error response, with no network call made.
C11_HandledWithoutToken ==
  \E r \in Reqs :
    /\ ops[r].msg.type = "glassBackgroundScriptRequest"
    /\ Handled(r)
    /\ ops[r].found = ""
    /\ ops[r].responses = 1
    /\ ops[r].asyncOps = 0

\* ---- C12
UserResponses == {UserResponse(id) : id \in {"sys_id", "userID", "undefined"}}

\* C12: a current-user request for which neither window.NOW.user nor the session API
\* yielded a user id is answered with an error and no user; every current-user
\* response that carries a user carries a defined id for it.
C12_UserHasId ==
  \A r \in Reqs :
    ops[r].msg.type = "snEzCurrentUserRequest" /\ ops[r].stage = "done" =>
      /\ ~Truthy(ops[r].found) => ops[r].respText \notin UserResponses
      /\ ops[r].respText \in UserResponses => ops[r].respText # UserResponse("undefined")

\* ---- C13
\* C13: an end-impersonate request causes an impersonate POST only when an original
\* user was discovered, then exactly one, naming that user; when none was discovered it
\* is answered at once with success=false and the not-impersonating error, without POST.
C13_PostOnlyToOriginalUser ==
  \A r \in Reqs :
    Handled(r) /\ ops[r].msg.type = "snEzEndImpersonateRequest" =>
      /\ ops[r].asyncOps <= 1
      /\ Truthy(ops[r].found) => ops[r].asyncOps = 1 /\ ops[r].target = ops[r].found
      /\ ~Truthy(ops[r].found) =>
           /\ ops[r].asyncOps = 0
           /\ ops[r].target = ""
           /\ ops[r].stage = "done"
           /\ ops[r].responses = 1
           /\ ops[r].respType = "snEzEndImpersonateResponse"
           /\ ops[r].respText = "success: false, error: You are not impersonating anyone"

\* C13 case: the scripts named nobody, the probe named the original user, and the one
\* POST went to that user.
C13_PostedToProbedUser ==
  \E r \in Reqs :
    /\ ops[r].msg.type = "snEzEndImpersonateRequest"
    /\ ops[r].probes = 1
    /\ ops[r].found = "probeUser"
    /\ ops[r].asyncOps = 1
    /\ ops[r].target = "probeUser"

\* ---- C14
\* C14: a register call whose descriptor lacks a name or lacks execute throws and
\* leaves the name map and the alias map as they were.
C14_InvalidRegisterThrows ==
  [][registrations' # registrations /\ lastRegister'.lacking =>
       lastRegister'.threw /\ commands' = commands /\ aliases' = aliases]_vars

\* C14 case: a descriptor lacking a field was rejected by a registry that already
\* holds a command and an alias.
C14_RejectedAfterRegistration ==
  lastRegister.lacking /\ lastRegister.threw /\ commands # {} /\ aliases # {}

\* ---- C15
\* The spellings of tokens looked up.
Tokens == {"ls", "LS", "Ls", "l", "L"}
\* t is a spelling of the name or of an alias of d
Names(d, t) ==
  \/ ToLowerCase(t) = ToLowerCase(d.name)
  \/ \E i \in DOMAIN d.aliases.items : ToLowerCase(t) = ToLowerCase(d.aliases.items[i])

\* C15: for every descriptor d registered so far, get of the name of d and of each
\* alias of d, in any letter case, returns d.
C15_AliasTransparency ==
  \A d \in registered : \A t \in Tokens :
    Names(d, t) => RegistryGet(commands, aliases, t) = d

\* ---- C16
\* C16: every key of the alias map maps to a key of the name map, and get of that
\* key does not return undefined.
C16_AliasesResolve ==
  \A en \in aliases :
    /\ Has(commands, en[2])
    /\ RegistryGet(commands, aliases, en[1]) # UndefinedCommand

\* C16 case: a register call failed, and the next one stored a name and an alias.
C16_AliasAfterFailedRegister ==
  /\ registrations = 2
  /\ Cardinality(registered) = 1
  /\ \E en \in aliases : Has(commands, en[2]) /\ Get(commands, en[2]).id = 2

\* ---- C17
\* No name and no alias of the registry is a spelling of t.
Unmatched(t) ==
  /\ \A en \in commands : en[1] # ToLowerCase(t)
  /\ \A en \in aliases : en[1] # ToLowerCase(t)

\* C17: a dispatched line whose first token matches no name and no alias fails with
\* the unknown-command error and calls neither validate nor execute. (Names and
\* aliases are never removed, so a token unmatched now was unmatched when dispatched.)
C17_UnknownCommand ==
  dispatch.pc # "idle" /\ Unmatched(dispatch.commandName) =>
    /\ dispatch.pc = "done"
    /\ dispatch.failure = "unknown command"
    /\ dispatch.shown = <<"Unknown command: " \o dispatch.commandName
                            \o ". Type 'help' for available commands.">>
    /\ dispatch.validateCalls = 0
    /\ dispatch.executeCalls = 0

\* C17 case: an unknown first token dispatched to a registry that holds commands.
C17_UnknownTokenDispatched ==
  /\ dispatch.pc = "done"
  /\ dispatch.commandName = "unknownthing"
  /\ commands # {}
  /\ aliases # {}
  /\ Len(dispatch.shown) = 1

\* ---- C18
\* C18: when validate returns a value other than true, execute is not called, and
\* when that value is a string, the empty string included, the error shown is
\* exactly that string.
C18_ValidateStringSurfaced ==
  dispatch.validated.kind = "returns" /\ dispatch.validated.value # True =>
    /\ dispatch.executeCalls = 0
    /\ dispatch.validated.value.type = "string" =>
         dispatch.shown = <<dispatch.validated.value.value>>

\* ---- C19
\* C19: every failure of a dispatch (unknown command, validate not true or throwing,
\* execute throwing or rejecting) ends with one ui.showError call and a fulfilled
\* promise; the promise of executeCommand is never rejected.
C19_FailuresCaught ==
  /\ dispatch.promise # "rejected"
  /\ dispatch.failure # "none" =>
       /\ dispatch.pc = "done"
       /\ Len(dispatch.shown) = 1
       /\ dispatch.promise = "fulfilled"

\* C19 case: the promise execute returned was rejected after the await.
C19_RejectionShown ==
  /\ dispatch.failure = "execute rejected"
  /\ dispatch.executeCalls = 1
  /\ dispatch.shown = <<"execute rejected">>
  /\ dispatch.promise = "fulfilled"

\* ---- C20
\* C20: at most one fetch of a cache is outstanding at any time, and a call made
\* while a fetch is in flight starts none and receives the promise of that fetch.
C20_OneFetchInFlight ==
  /\ Cardinality(ActiveFetches(cache)) <= 1
  /\ Cardinality({p \in FetchCalls : cache.stage[p] = "tableGet"}) <= 1
  /\ \A i \in FetchCalls :
       fetches[i].made /\ fetches[i].active # {} =>
         ~fetches[i].started /\ fetches[i].got \in fetches[i].active

\* C20 case: two further calls made while the network fetch of the first was
\* outstanding each received the promise of the first.
C20_TwoCallersShareFetch ==
  /\ cache.stage[1] = "tableGet"
  /\ fetches[2].active = {1} /\ fetches[2].got = 1
  /\ fetches[3].active = {1} /\ fetches[3].got = 1

\* ---- C21
\* C21: once every fetch has settled the in-flight marker (isFetching && fetchPromise)
\* is clear, and a call that is handed a promise is handed either the promise of the
\* fetch it started itself or that of a fetch still running when it was made, never
\* the promise of a settled fetch.
C21_MarkerCleared ==
  /\ ActiveFetches(cache) = {} => ~(cache.isFetching /\ cache.fetchPromise # 0)
  /\ \A i \in FetchCalls :
       fetches[i].made /\ fetches[i].got # 0 =>
         IF fetches[i].active = {}
         THEN fetches[i].started /\ fetches[i].got = i
         ELSE fetches[i].got \in fetches[i].active

\* C21 case: the first fetch settled without caching anything, and the second call
\* started a fetch of its own, which is running.
C21_NewFetchAfterSettled ==
  /\ cache.stage[1] = "done"
  /\ fetches[2].active = {}
  /\ fetches[2].started
  /\ fetches[2].got = 2
  /\ cache.stage[2] = "tableGet"

C23_StaleTreatedAbsent ==
  lastRead.made /\ lastRead.returned.present =>
    lastRead.at - lastRead.returned.timestamp < CacheDuration(cache.name)

\* C23 amended: an entry whose age is at least CACHE_DURATION is never loaded from
\* storage and never returned by the fetch function as a valid cache (without a
\* fetch), and a synchronous read that returns such items has called the fetch
\* function.
C23_StaleNeverRevalidated ==
  /\ lastRead.made /\ lastRead.loaded =>
       /\ lastRead.returned = lastRead.sto
       /\ lastRead.at - lastRead.sto.timestamp < CacheDuration(cache.name)
  /\ lastRead.made /\ lastRead.returned.present
       /\ lastRead.at - lastRead.returned.timestamp >= CacheDuration(cache.name) =>
         lastRead.call # 0 /\ fetches[lastRead.call].got # 0
  /\ \A i \in FetchCalls :
       fetches[i].made /\ fetches[i].got = 0 =>
         \/ fetches[i].mem.present
              /\ fetches[i].at - fetches[i].mem.timestamp < CacheDuration(cache.name)
         \/ fetches[i].sto.present
              /\ fetches[i].at - fetches[i].sto.timestamp < CacheDuration(cache.name)

\* C23 witness: with an empty memory cache and a stored entry of age CACHE_DURATION,
\* a read loaded nothing and the fetch call it made started a fetch.
C23_StaleStoredEntryIgnored ==
  /\ lastRead.made /\ ~lastRead.mem.present /\ lastRead.sto.present
  /\ lastRead.at - lastRead.sto.timestamp = CacheDuration(cache.name)
  /\ ~lastRead.loaded /\ ~lastRead.returned.present
  /\ lastRead.call # 0 /\ fetches[lastRead.call].started

\* C24: the three validity tests are the same strict bound. A fetch call returns the
\* cache without a fetch exactly when the memory entry or the stored entry is younger
\* than CACHE_DURATION; a read loads the stored entry exactly when memory is empty and
\* the stored entry is younger than CACHE_DURATION, and calls the fetch function
\* exactly when the memory entry it then holds is CACHE_DURATION old or older.
C24_StrictAgeBound ==
  /\ \A i \in FetchCalls :
       fetches[i].made =>
         (fetches[i].got = 0 <=>
            \/ fetches[i].mem.present
                 /\ fetches[i].at - fetches[i].mem.timestamp < CacheDuration(cache.name)
            \/ fetches[i].sto.present
                 /\ fetches[i].at - fetches[i].sto.timestamp < CacheDuration(cache.name))
  /\ lastRead.made =>
       /\ lastRead.loaded <=>
            /\ ~lastRead.mem.present /\ lastRead.sto.present
            /\ lastRead.at - lastRead.sto.timestamp < CacheDuration(cache.name)
       /\ lastRead.call # 0 <=>
            lastRead.at - (IF lastRead.loaded THEN lastRead.sto.timestamp
                           ELSE lastRead.mem.timestamp) >= CacheDuration(cache.name)

\* C24 witness: an entry was returned without a fetch at age CACHE_DURATION - 1, and
\* a read at age CACHE_DURATION of the same entry called the fetch function, which
\* started a fetch.
C24_BoundaryAges ==
  /\ \E i \in FetchCalls :
       /\ fetches[i].made /\ fetches[i].got = 0 /\ fetches[i].mem.present
       /\ fetches[i].at - fetches[i].mem.timestamp = CacheDuration(cache.name) - 1
       /\ lastRead.mem = fetches[i].mem
  /\ lastRead.made /\ lastRead.mem.present /\ lastRead.call # 0
  /\ lastRead.at - lastRead.mem.timestamp = CacheDuration(cache.name)
  /\ fetches[lastRead.call].started

\* The technical id of a cached item: the table name, the sys_id of a source.
TechnicalId(def) == IF "table" \in DOMAIN def THEN def.table ELSE def.sys_id
StartsWithQuery(def, q) ==
  StartsWith(LowerCase(def.name), LowerCase(q))
    \/ StartsWith(LowerCase(TechnicalId(def)), LowerCase(q))
ContainsQuery(def, q) ==
  Includes(LowerCase(def.name), LowerCase(q))
    \/ Includes(LowerCase(TechnicalId(def)), LowerCase(q))
ExactTable(array, q) == {i \in DOMAIN array : LowerCase(array[i].table) = LowerCase(q)}
ExactName(array, q) == {i \in DOMAIN array : LowerCase(array[i].name) = LowerCase(q)}

\* C25 as stated: resolveTableName returns an input that matches no cached table name
\* and no cached display name unchanged, character for character.
C25_FallbackVerbatim ==
  lookup.op = "resolveTableName"
    /\ ExactTable(lookup.over, lookup.input) = {}
    /\ ExactName(lookup.over, lookup.input) = {} =>
      lookup.result = lookup.input

\* C26: resolveTableName returns the table of an item whose table name equals the
\* input (ignoring case) whenever there is one, wherever an item with that display
\* name stands in the cache; when only display names equal the input, it returns the
\* table of the first such item.
C26_TableBeforeName ==
  lookup.op = "resolveTableName" =>
    /\ ExactTable(lookup.over, lookup.input) # {} =>
         \E i \in ExactTable(lookup.over, lookup.input) :
           lookup.result = lookup.over[i].table
    /\ ExactTable(lookup.over, lookup.input) = {}
         /\ ExactName(lookup.over, lookup.input) # {} =>
           \E i \in ExactName(lookup.over, lookup.input) :
             /\ lookup.result = lookup.over[i].table
             /\ \A j \in ExactName(lookup.over, lookup.input) : i <= j

\* C26 witness: the input is the display name of the first cached item and the table
\* name of the second, and the second item's table name was returned.
C26_NameMatchStandsFirst ==
  /\ lookup.op = "resolveTableName"
  /\ 1 \in ExactName(lookup.over, lookup.input)
  /\ 2 \in ExactTable(lookup.over, lookup.input)
  /\ lookup.over[1].table # lookup.over[2].table
  /\ lookup.result = lookup.over[2].table

\* C27 as stated: in the result of a lookup for a non-empty query every item contains
\* the query in its display name or technical id, the items that start with it stand
\* before those that only contain it, and within both groups the technical ids do not
\* get shorter.
C27_RankedResult ==
  lookup.op \in {"findMatchingTables", "findMatchingSources"} /\ lookup.input # <<>> =>
    /\ \A i \in DOMAIN lookup.result : ContainsQuery(lookup.result[i], lookup.input)
    /\ \A i, j \in DOMAIN lookup.result :
         i < j =>
           /\ StartsWithQuery(lookup.result[j], lookup.input) =>
                StartsWithQuery(lookup.result[i], lookup.input)
           /\ StartsWithQuery(lookup.result[i], lookup.input)
                  = StartsWithQuery(lookup.result[j], lookup.input) =>
                Len(TechnicalId(lookup.result[i])) <= Len(TechnicalId(lookup.result[j]))

\* C28 as stated: a lookup returns at most ten items.
C28_AtMostTen ==
  lookup.op \in {"findMatchingTables", "findMatchingSources"} =>
    Len(lookup.result) <= MaxResults

\* The record the claim describes for one line of the region: none for a blank line
\* and for a line that starts with '###' (as it is or behind the prefix), else the JSON
\* value or the text of the line without a leading '*** Script: '.
ClaimedRecord(line) ==
  LET text == Trim(CleanHtmlOutput(line))
      first == CHOOSE i \in 1..(Len(line) + 1) :
                 /\ i <= Len(line) => line[i] # " "
                 /\ \A j \in 1..(i - 1) : line[j] = " "
      lead == CleanHtmlOutput(SubSeq(line, first, Len(line)))
      stripped == IF StartsWith(lead, Prefix)
                  THEN Trim(SubSeq(lead, Len(Prefix) + 1, Len(lead)))
                  ELSE text
  IN IF stripped = <<>> \/ StartsWith(stripped, MarkerPrefix) THEN <<>>
     ELSE <<[json |-> stripped \in JsonTexts, text |-> stripped]>>

RECURSIVE ClaimedRecords(_)
ClaimedRecords(lines) ==
  IF lines = <<>> THEN <<>> ELSE ClaimedRecord(Head(lines)) \o ClaimedRecords(Tail(lines))

\* The records with the blanks around their text removed.
TrimAll(records) == [i \in 1..Len(records) |-> [records[i] EXCEPT !.text = Trim(@)]]

\* C29 as stated: executeAndParse returns, in line order, one record per non-blank
\* line of the region between the markers that does not start with '###', with the
\* '*** Script: ' prefix stripped: the JSON value or else the text of the line; and
\* the empty list when the markers are not both in the response.
C29_OneRecordPerLine ==
  parseCall.op = "executeAndParse" =>
    IF parseCall.marked \in {"echoed", "bare"}
    THEN TrimAll(parseCall.result) = ClaimedRecords(parseCall.region)
    ELSE parseCall.result = <<>>

\* The offsets at which the marker stands in the text, character for character.
Occurrences(text, marker) ==
  {i \in 0..(Len(text) - Len(marker)) : SubSeq(text, i + 1, i + Len(marker)) = marker}

\* C30: executeAndExtract returns the text between the first occurrence of the start
\* marker and the nearest occurrence of the end marker after it, both markers taken
\* character for character, and null when there is no such pair.
C30_LiteralMarkers ==
  parseCall.op = "executeAndExtract" =>
    LET starts == Occurrences(parseCall.html, parseCall.startMarker)
        first == CHOOSE i \in starts : \A j \in starts : i <= j
        ends == {k \in Occurrences(parseCall.html, parseCall.endMarker) :
                   k >= first + Len(parseCall.startMarker)}
        nearest == CHOOSE k \in ends : \A j \in ends : k <= j
    IN IF starts = {} \/ ends = {} THEN parseCall.result = <<>>
       ELSE parseCall.result =
              <<SubSeq(parseCall.html, first + Len(parseCall.startMarker) + 1, nearest)>>

\* C30 witness: with the markers '.' and '#.', the text between the first '.' and the
\* '#.' after it was extracted from a response that begins with another character.
C30_DotMarkerExtracted ==
  /\ parseCall.op = "executeAndExtract"
  /\ parseCall.startMarker = <<".">> /\ parseCall.endMarker = <<"#", ".">>
  /\ parseCall.html = <<"#", ".", "#", ".">>
  /\ parseCall.result = <<<<>>>>

\* The answer the impersonate command got to its request, and the last message shown.
LastAnswer == run.answers[Len(run.answers)]
LastShown == run.shown[Len(run.shown)]
BridgeRefused ==
  /\ run.name = "impersonate" /\ run.pc = "done" /\ run.answers # <<>>
  /\ LastAnswer.kind = "response" /\ ~LastAnswer.success /\ LastAnswer.error # ""

\* C31: when the impersonate command has run and the bridge answered success=false
\* with an error text E, the message shown to the user is exactly E and the page is
\* not reloaded; the page is reloaded only after a success=true response.
C31_ErrorShownExactly ==
  /\ BridgeRefused =>
       /\ LastShown = [type |-> "error", message |-> LastAnswer.error]
       /\ run.reloads = 0
  /\ (run.name = "impersonate" /\ run.reloads > 0) =>
       /\ run.answers # <<>>
       /\ LastAnswer.kind = "response" /\ LastAnswer.success

\* The clear command (or its alias) was the last line entered and has completed.
ClearCompleted == run.name = "clear" /\ run.pc = "done"
\* The entries of the history Up and Down walk through that were entered before the
\* last line.
EnteredBefore ==
  SubSeq(terminal.commandHistory, 1, Len(terminal.commandHistory) - 1)

\* C32: after the clear command (or cls) has completed, the history that Up/Down
\* navigation walks through holds none of the commands entered before the clear.
C32_HistoryCleared == ClearCompleted => EnteredBefore = <<>>

\* The name or alias resolves through the registry to a descriptor.
Resolves(token) == RegistryGet(commands, aliases, token).id # 0
UnknownCommand(token) ==
  [type |-> "error",
   message |-> "Unknown command: " \o token \o ". Type 'help' for available commands."]

\* C33: once every command module has registered, every name and alias of the README's
\* command table resolves to a descriptor, and dispatching one never shows the
\* unknown-command error.
C33_ReadmeResolves ==
  Loaded =>
    /\ \A token \in ReadmeCommands : Resolves(token)
    /\ (run.pc = "done" /\ run.commandName \in ReadmeCommands) =>
         \A i \in 1..Len(run.shown) : run.shown[i] # UnknownCommand(run.commandName)

\* The posting timer of call c fires in this step.
Posts(c) == calls[c].postArmed /\ ~calls'[c].postArmed

\* C34: a request message is posted only while the request's entry is still in the
\* pending table; a request its timeout has rejected is not posted afterwards, whatever
\* the timeout, shorter than the posting delay included.
C34_PostedWhilePending ==
  [][\A c \in Calls :
       Posts(c) => (Has(messageHandlers, calls[c].id) /\ calls[c].result.kind # "timeout")]_vars

\* The requests of one path that have been registered and are not settled, and the
\* entries they have in their table.
Pending(path) == {c \in Calls : calls[c].path = path /\ calls[c].pc = "pending"}
Entries(path) == {<<calls[c].id, c>> : c \in Pending(path)}

\* C35: in every state each pending-request table holds exactly the requests that were
\* registered and are not yet settled, each with its timeout timer armed; the timer of
\* a settled request is cancelled or has fired; once every issued request has settled
\* both tables are empty.
C35_TableExact ==
  /\ messageHandlers = Entries("api")
  /\ pendingRequests = Entries("bg")
  /\ \A c \in Requests :
       /\ calls[c].pc = "pending" => calls[c].timeoutArmed /\ ~Settled(c)
       /\ Settled(c) => ~calls[c].timeoutArmed
  /\ (\A c \in Requests : Settled(c)) => messageHandlers = {} /\ pendingRequests = {}

\* C35 case: a request of each path was registered, one was resolved by its response
\* and the other rejected by its timeout, and both tables are empty again.
C35_AllSettledTablesEmpty ==
  /\ \E c, d \in Requests :
       /\ calls[c].path = "api" /\ calls[c].result.kind = "response"
       /\ calls[d].path = "bg" /\ calls[d].result.kind = "timeout"
  /\ \A c \in Calls : Settled(c)
  /\ messageHandlers = {} /\ pendingRequests = {}

\* Steps in which the fetch of promise p ends without rows: the request was rejected
\* or returned an empty list, no instance URL was detected, or the body returned at
\* once because the API or the context is missing.
FetchFails(p) ==
  \/ \E outcome \in {"empty", "error"}, saved \in BOOLEAN : TableGetSettles(p, outcome, saved)
  \/ InstanceUrlResolves(p, FALSE)
  \/ /\ FetchTableDefinitions(FALSE) \/ GetTableDefinitions(FALSE)
     /\ cache.stage[p] = "unused" /\ cache'.stage[p] = "done"
\* Steps in which the fetch of promise p ends with rows.
FetchLoads(p) == \E saved \in BOOLEAN : TableGetSettles(p, "rows", saved)
\* The body of the fetch of promise p finishes in this step.
FetchEnds(p) == cache.stage[p] # "done" /\ cache'.stage[p] = "done"

IsTokenStart(line, i) ==
  line[i] \notin WhiteSpace /\ (i = 1 \/ line[i - 1] \in WhiteSpace)
TokenEnd(line, i) ==
  CHOOSE j \in i..Len(line) :
    /\ \A k \in i..j : line[k] \notin WhiteSpace
    /\ j = Len(line) \/ line[j + 1] \in WhiteSpace
RECURSIVE TokensFrom(_, _)
TokensFrom(line, i) ==
  IF i > Len(line) THEN <<>>
  ELSE IF IsTokenStart(line, i)
  THEN <<Concat(SubSeq(line, i, TokenEnd(line, i)))>> \o TokensFrom(line, i + 1)
  ELSE TokensFrom(line, i + 1)
LineTokens(line) == TokensFrom(line, 1)
\* The dispatch resolved a descriptor (which has a validate function or not).
Resolved == run.pc # "idle" /\ run.name # "null"
Descriptor == RegistryGet(commands, aliases, run.commandName)
Count(fn) == Cardinality({i \in 1..Len(run.calls) : run.calls[i].fn = fn})

\* C37: in a dispatch that resolved a descriptor, validate (when the descriptor has
\* one) is called exactly once and before execute, execute at most once, and each call
\* gets exactly the tokens of the typed line after the command token, in order, none
\* of them empty, whatever blanks and tabs the line holds.
C37_CallsAndTokens ==
  Resolved =>
    /\ run.commandName = LineTokens(run.typed)[1]
    /\ Count("validate") = (IF Descriptor.validate THEN 1 ELSE 0)
    /\ Count("execute") <= 1
    /\ Descriptor.validate => run.calls[1].fn = "validate"
    /\ \A i \in 1..Len(run.calls) :
         /\ run.calls[i].args = Tail(LineTokens(run.typed))
         /\ \A k \in 1..Len(run.calls[i].args) : run.calls[i].args[k] # ""

\* C37 case: a line with a tab and blanks between its words and a blank at its end
\* was dispatched, and validate and then execute were called with its two arguments.
C37_TabsAndBlanks ==
  /\ run.typed = <<"l", "\t", " ", "a", " ", "b", " ">>
  /\ run.calls = <<[fn |-> "validate", args |-> <<"a", "b">>],
                   [fn |-> "execute", args |-> <<"a", "b">>]>>

\* A message the bridge has to ignore: without a type, without a messageId, or of a
\* type that is none of the seven request types (its own responses, its ready signal).
Ignorable(m) == m.type = NoType \/ m.messageId = NoId \/ m.type \notin RequestTypes
\* What the bridge has caused for a posted message: network operations, synchronous
\* probes, responses.
Caused(op) == <<op.asyncOps, op.probes, op.responses>>

\* C38: when a message without a type or a messageId, or of a type that is not one of
\* the seven request types, is dispatched to the bridge's listener, nothing is posted
\* and no network operation is started, the bridge's own responses included.
C38_IgnoresOtherMessages ==
  [][(BridgeDeliver /\ Ignorable(Head(queue))) =>
       /\ queue' = Tail(queue)
       /\ \A r \in Reqs :
            /\ Caused(ops'[r]) = Caused(ops[r])
            /\ ops'[r].stage \in {ops[r].stage, "ignored"}]_vars

\* C38 case: the bridge has answered a request after a network operation and its
\* response has been dispatched to its own listener, which left nothing in the queue.
C38_OwnResponseDispatched ==
  /\ listeners > 0
  /\ queue = <<>>
  /\ \E r \in Reqs :
       /\ ops[r].stage = "done" /\ ops[r].asyncOps = 1 /\ ops[r].responses = 1
       /\ ops[r].respType \in ResponseTypes /\ ops[r].respId # NoId

\* The requests of a separate command: the mutating ones, the lock-out PATCH, and the
\* DELETE requests of the first two loops (group memberships; roles queried with
\* inherited=false, the first query of sys_user_has_role).
Separating == run.name = "separate" /\ run.pc # "idle"
Mutating(k) == run.requests[k].method \in {"PATCH", "DELETE"}
LockOut(k) == run.requests[k] = [method |-> "PATCH", target |-> "sys_user"]
RoleQueriesBefore(k) ==
  Cardinality({j \in 1..(k - 1) :
                 run.requests[j] = [method |-> "GET", target |-> "sys_user_has_role"]})
StrictDelete(k) ==
  /\ run.requests[k].method = "DELETE"
  /\ \/ run.requests[k].target = "sys_user_grmember"
     \/ run.requests[k].target = "sys_user_has_role" /\ RoleQueriesBefore(k) = 1
Failed(k) == run.answers[k].kind = "rejected" \/ Truthy(run.answers[k].error)

\* C39: the separate command issues no PATCH or DELETE when the user query returned no
\* record; the lock-out PATCH precedes every DELETE; when the PATCH, a group-membership
\* DELETE or a DELETE of a non-inherited role failed, that request is the last one the
\* command issued and the command ended by showing the error.
C39_LockOutFirstStopOnFailure ==
  Separating =>
    /\ Len(run.answers) <= Len(run.requests) /\ Len(run.requests) <= Len(run.answers) + 1
    /\ (run.answers # <<>> /\ (Failed(1) \/ run.answers[1].records = 0)) =>
         \A k \in 1..Len(run.requests) : ~Mutating(k)
    /\ \A k \in 1..Len(run.requests) :
         run.requests[k].method = "DELETE" => \E j \in 1..(k - 1) : LockOut(j)
    /\ \A k \in 1..Len(run.answers) :
         (Failed(k) /\ (LockOut(k) \/ StrictDelete(k))) =>
           /\ Len(run.requests) = k
           /\ run.pc = "done"
           /\ LastShown = [type |-> "error",
                           message |-> "Separate failed: " \o run.answers[k].error]

\* C39 case: the user was found and locked out, a group membership was found, and its
\* DELETE failed: the command has ended with the error after four requests.
C39_GroupDeleteFailed ==
  /\ Separating /\ run.pc = "done"
  /\ Len(run.answers) = 4
  /\ LockOut(2) /\ ~Failed(2)
  /\ StrictDelete(4) /\ Failed(4)
  /\ LastShown.type = "error"
====
